---- MODULE Spec2Model ----
(***************************************************************************)
(* Model of the value-format engine of spreadsheet-ods (src/src/format.rs): *)
(* ValueFormat, FormatPart, the push builders, the five format_*           *)
(* rendering entry points and the ready-made formats, and of color_string  *)
(* (src/src/style/mod.rs).                                                 *)
(*                                                                         *)
(* Rust Strings are sequences of one-character strings, so that number     *)
(* formatting and parsing are computed digit by digit.  Option<T> is a     *)
(* sequence of length 0 (None) or 1 (Some).                                *)
(***************************************************************************)
EXTENDS Integers, Sequences, FiniteSets, TLC

VARIABLES
    status,     \* "none": no format constructed yet; "ok"; "panicked"
    name,       \* ValueFormat.name
    v_type,     \* ValueFormat.v_type
    origin,     \* ValueFormat.origin
    styleuse,   \* ValueFormat.styleuse
    attr,       \* ValueFormat.attr
    textstyle,  \* ValueFormat.textstyle
    parts,      \* ValueFormat.parts
    stylemaps,  \* ValueFormat.stylemaps
    partvec,    \* the caller's Vec<FormatPart> handed to push_parts
    pushed,     \* history: the parts handed to the push operations, in call order
    smcalls,    \* history: the stylemap operations called, in call order
    call,       \* the last rendering call (entry point and argument), or NoCall
    buf         \* the String that call returned

vars == << status, name, v_type, origin, styleuse, attr, textstyle, parts,
           stylemaps, partvec, pushed, smcalls, call, buf >>

fmtvars == << name, v_type, origin, styleuse, attr, textstyle, parts, stylemaps >>

----------------------------------------------------------------------------
(* Bounds of the model. *)

\* longest parts sequence built in a run
MaxParts == 2
\* largest decimal_places handed to the Number builders
MaxDec == 2
\* longest Vec<FormatPart> the caller hands to push_parts
MaxVec == 2
\* longest parts sequence built in the runs of one rendering entry point
MaxLongParts == 3
\* the number of attributes a format holds at most in the accessor runs
MaxAttrs == 2
\* the number of stylemaps pushed at most
MaxStylemaps == 2
\* stylemaps_mut is called without adding anything while the history of
\* stylemap operations is shorter than this
MaxStylemapCalls == 3

----------------------------------------------------------------------------
(* Option and String helpers. *)

None == << >>
Some(v) == << v >>
IsSome(o) == Len(o) = 1
Unwrap(o) == o[1]

Digits == << "0", "1", "2", "3", "4", "5", "6", "7", "8", "9" >>
DigitSet == { Digits[i] : i \in 1..Len(Digits) }
DigitChar(d) == Digits[d + 1]
DigitVal(c) == CHOOSE d \in 0..9 : Digits[d + 1] = c

LowerLetters == << "a", "b", "c", "d", "e", "f", "g", "h", "i", "j", "k", "l", "m",
                   "n", "o", "p", "q", "r", "s", "t", "u", "v", "w", "x", "y", "z" >>
UpperLetters == << "A", "B", "C", "D", "E", "F", "G", "H", "I", "J", "K", "L", "M",
                   "N", "O", "P", "Q", "R", "S", "T", "U", "V", "W", "X", "Y", "Z" >>
IsLower(c) == \E i \in 1..Len(LowerLetters) : LowerLetters[i] = c
IsUpper(c) == \E i \in 1..Len(UpperLetters) : UpperLetters[i] = c
IsAlpha(c) == IsLower(c) \/ IsUpper(c)
ToUpper(c) ==
    IF IsLower(c)
    THEN UpperLetters[CHOOSE i \in 1..Len(LowerLetters) : LowerLetters[i] = c]
    ELSE c
ToLower(c) ==
    IF IsUpper(c)
    THEN LowerLetters[CHOOSE i \in 1..Len(UpperLetters) : UpperLetters[i] = c]
    ELSE c

\* Rust integer division and remainder truncate toward zero.
TruncDiv(a, b) == IF a >= 0 THEN a \div b ELSE -((-a) \div b)
TruncRem(a, b) == a - b * TruncDiv(a, b)

\* u8 / u32 / i64 .to_string(): decimal digits, '-' for a negative value.
RECURSIVE NatToString(_)
NatToString(n) ==
    IF n < 10 THEN << DigitChar(n) >>
    ELSE NatToString(n \div 10) \o << DigitChar(n % 10) >>
IntToString(n) == IF n < 0 THEN << "-" >> \o NatToString(-n) ELSE NatToString(n)

\* a number zero-padded on the left to at least w digits
RECURSIVE ZeroPad(_, _)
ZeroPad(s, w) == IF Len(s) >= w THEN s ELSE ZeroPad(<< "0" >> \o s, w)

RECURSIVE Zeros(_)
Zeros(k) == IF k <= 0 THEN << >> ELSE << "0" >> \o Zeros(k - 1)

RECURSIVE DigitsValue(_)
DigitsValue(s) ==
    IF Len(s) = 0 THEN 0
    ELSE 10 * DigitsValue(SubSeq(s, 1, Len(s) - 1)) + DigitVal(s[Len(s)])

\* str::parse::<usize>(): an optional '+', then one or more ASCII digits;
\* anything else (empty, '-', a letter, a blank) is Err, here None.
ParseUsize(s) ==
    LET body == IF Len(s) > 0 /\ s[1] = "+" THEN Tail(s) ELSE s
    IN IF Len(body) > 0 /\ \A i \in 1..Len(body) : body[i] \in DigitSet
       THEN Some(DigitsValue(body))
       ELSE None

\* bool.to_string()
S_true == << "t", "r", "u", "e" >>
S_false == << "f", "a", "l", "s", "e" >>
BoolToString(b) == IF b THEN S_true ELSE S_false

----------------------------------------------------------------------------
(* AttrMap2 (crate::attrmap2): a string-keyed map of String values with     *)
(* presence-or-absence semantics.  A map is a function whose domain is the  *)
(* set of keys present.                                                     *)

AttrMap2_new == [k \in {} |-> << >>]
AttrMap2_set_attr(m, k, v) ==
    [x \in (DOMAIN m) \cup {k} |-> IF x = k THEN v ELSE m[x]]
AttrMap2_attr(m, k) == IF k \in DOMAIN m THEN Some(m[k]) ELSE None

----------------------------------------------------------------------------
(* Enumerations and their Display implementations. *)

\* crate::ValueType
ValueType == { "Empty", "Boolean", "Number", "Percentage", "Currency", "Text",
               "TextXml", "DateTime", "TimeDuration" }

FormatPartType == { "Number", "FillCharacter", "ScientificNumber", "Fraction",
                    "CurrencySymbol", "Day", "Month", "Year", "Era", "DayOfWeek",
                    "WeekOfYear", "Quarter", "Hours", "Minutes", "Seconds", "AmPm",
                    "Boolean", "Text", "TextContent" }

FormatNumberStyle == { "Short", "Long" }
S_short == << "s", "h", "o", "r", "t" >>
S_long == << "l", "o", "n", "g" >>
FormatNumberStyle_fmt(style) == IF style = "Short" THEN S_short ELSE S_long

FormatTextual == { "Numeric", "Textual" }
FormatTextual_fmt(textual) == IF textual = "Numeric" THEN S_false ELSE S_true

FormatMonth == { "Nominativ", "Possessiv" }
FormatMonth_fmt(m) == IF m = "Nominativ" THEN S_false ELSE S_true

FormatCalendar == { "Default", "Gregorian", "Gengou", "Roc", "Hanja", "Hijri",
                    "Jewish", "Buddhist" }
FormatCalendar_fmt(calendar) ==
    CASE calendar = "Gregorian" -> << "g", "r", "e", "g", "o", "r", "i", "a", "n" >>
      [] calendar = "Gengou" -> << "g", "e", "n", "g", "o", "u" >>
      [] calendar = "Roc" -> << "R", "O", "C" >>
      [] calendar = "Hanja" -> << "h", "a", "n", "j", "a" >>
      [] calendar = "Hijri" -> << "h", "i", "j", "r", "i" >>
      [] calendar = "Jewish" -> << "j", "e", "w", "i", "s", "h" >>
      [] calendar = "Buddhist" -> << "b", "u", "d", "d", "h", "i", "s", "t" >>
      [] calendar = "Default" -> << >>

----------------------------------------------------------------------------
(* icu_locid subtags.  A typed subtag holds its canonical text; parsing     *)
(* validates the shape and canonicalises the case.                          *)

Region_new(s) == [subtag |-> "Region", text |-> s]
Language_new(s) == [subtag |-> "Language", text |-> s]
Script_new(s) == [subtag |-> "Script", text |-> s]
Subtag_to_string(t) == t.text

\* Region: two letters (canonically upper case) or three digits.
Region_parse(s) ==
    IF Len(s) = 2 /\ \A i \in 1..2 : IsAlpha(s[i])
    THEN Some(Region_new([i \in 1..2 |-> ToUpper(s[i])]))
    ELSE IF Len(s) = 3 /\ \A i \in 1..3 : s[i] \in DigitSet
    THEN Some(Region_new(s))
    ELSE None

\* Language: two or three letters (five to eight are not modelled),
\* canonically lower case.
Language_parse(s) ==
    IF Len(s) \in {2, 3} /\ \A i \in 1..Len(s) : IsAlpha(s[i])
    THEN Some(Language_new([i \in 1..Len(s) |-> ToLower(s[i])]))
    ELSE None

\* Script: four letters, canonically title case.
Script_parse(s) ==
    IF Len(s) = 4 /\ \A i \in 1..4 : IsAlpha(s[i])
    THEN Some(Script_new([i \in 1..4 |-> IF i = 1 THEN ToUpper(s[i]) ELSE ToLower(s[i])]))
    ELSE None

\* icu_locid::Locale: id.language, id.script, id.region
Locale_new(language, script, region) ==
    [language |-> language, script |-> script, region |-> region]

----------------------------------------------------------------------------
(* f64 values.  A finite value is m/8 (exactly representable in binary, so  *)
(* its decimal expansion is exact with three fractional digits); neg is the *)
(* sign bit.  cls is "finite", "nan" or "inf".                              *)

F64(neg, m) == [cls |-> "finite", neg |-> neg, m |-> m]
F64_NAN == [cls |-> "nan", neg |-> FALSE, m |-> 0]
F64_INF(neg) == [cls |-> "inf", neg |-> neg, m |-> 0]

S_NaN == << "N", "a", "N" >>
S_inf == << "i", "n", "f" >>

\* the value in thousandths
Thousandths(f) == f.m * 125

RECURSIVE StripTrailingZeros(_)
StripTrailingZeros(s) ==
    IF Len(s) > 0 /\ s[Len(s)] = "0"
    THEN StripTrailingZeros(SubSeq(s, 1, Len(s) - 1))
    ELSE s

Pow10(k) == CASE k = 0 -> 1 [] k = 1 -> 10 [] k = 2 -> 100 [] OTHER -> 1000

\* format!("{:.*}", dec, f): fixed-point with exactly dec fractional digits,
\* the exact value rounded half to even; no decimal point when dec is 0.
FormatFixed(dec, f) ==
    IF f.cls = "nan" THEN S_NaN
    ELSE IF f.cls = "inf" THEN (IF f.neg THEN << "-" >> ELSE << >>) \o S_inf
    ELSE
      LET q == Thousandths(f)
          sign == IF f.neg THEN << "-" >> ELSE << >>
      IN IF dec >= 3
         THEN sign \o NatToString(q \div 1000) \o << "." >>
              \o ZeroPad(NatToString(q % 1000), 3) \o Zeros(dec - 3)
         ELSE
           LET unit == Pow10(3 - dec)
               lo == q \div unit
               rem == q % unit
               r == IF 2 * rem > unit \/ (2 * rem = unit /\ lo % 2 = 1)
                    THEN lo + 1 ELSE lo
               scale == Pow10(dec)
           IN sign \o NatToString(r \div scale)
              \o (IF dec = 0 THEN << >>
                  ELSE << "." >> \o ZeroPad(NatToString(r % scale), dec))

\* format!("{:e}", f): the shortest digits d.ddd, then "e" and the exponent.
FormatLowerExp(f) ==
    IF f.cls = "nan" THEN S_NaN
    ELSE IF f.cls = "inf" THEN (IF f.neg THEN << "-" >> ELSE << >>) \o S_inf
    ELSE
      LET q == Thousandths(f)
          sign == IF f.neg THEN << "-" >> ELSE << >>
          all == NatToString(q)
          sig == StripTrailingZeros(all)
      IN IF q = 0 THEN sign \o << "0", "e", "0" >>
         ELSE sign \o << sig[1] >>
              \o (IF Len(sig) > 1 THEN << "." >> \o Tail(sig) ELSE << >>)
              \o << "e" >> \o IntToString(Len(all) - 1 - 3)

\* f64.to_string() (Display): integer digits and the fractional digits that
\* are needed, none when the value is whole.
F64ToString(f) ==
    IF f.cls = "nan" THEN S_NaN
    ELSE IF f.cls = "inf" THEN (IF f.neg THEN << "-" >> ELSE << >>) \o S_inf
    ELSE
      LET q == Thousandths(f)
          frac == StripTrailingZeros(ZeroPad(NatToString(q % 1000), 3))
      IN (IF f.neg THEN << "-" >> ELSE << >>) \o NatToString(q \div 1000)
         \o (IF Len(frac) > 0 THEN << "." >> \o frac ELSE << >>)

----------------------------------------------------------------------------
(* FormatPart and its constructors. *)

\* FormatPart::new
FormatPart_new(ftype) ==
    [part_type |-> ftype, attr |-> AttrMap2_new, content |-> None]

\* FormatPart::new_with_content
new_with_content(ftype, content) ==
    [part_type |-> ftype, attr |-> AttrMap2_new, content |-> Some(content)]

\* FormatPart::set_attr
set_attr(p, key, value) == [p EXCEPT !.attr = AttrMap2_set_attr(p.attr, key, value)]

\* FormatPart::set_content
set_content(p, content) == [p EXCEPT !.content = Some(content)]

\* mutant of attr_def: the default is dropped, a missing attribute reads as ""
attr_def_no_default(p, key, default) ==
    LET v == AttrMap2_attr(p.attr, key)
    IN IF IsSome(v) THEN Unwrap(v) ELSE << >>

\* FormatPart::attr_def
attr_def(p, key, default) ==
    LET v == AttrMap2_attr(p.attr, key)
    IN IF IsSome(v) THEN Unwrap(v) ELSE default

new_number(decimal_places, grouping, min_decimal_places, mininteger_digits, display_factor, decimal_replacement) ==
    LET p0 == FormatPart_new("Number")
        p1 == set_attr(p0, "number:min-integer-digits", NatToString(1))
        p2 == set_attr(p1, "number:decimal-places", NatToString(decimal_places))
        p3 == IF IsSome(decimal_replacement)
              THEN set_attr(p2, "number:decimal-replacement",
                            << Unwrap(decimal_replacement) >>)
              ELSE p2
        p4 == IF IsSome(display_factor)
              THEN set_attr(p3, "number:display-factor",
                            F64ToString(Unwrap(display_factor)))
              ELSE p3
        p5 == set_attr(p4, "number:mininteger-digits", NatToString(mininteger_digits))
        p6 == set_attr(p5, "number:min-decimal-places", NatToString(min_decimal_places))
    IN IF grouping THEN set_attr(p6, "number:grouping", S_true) ELSE p6

new_fill_character(fill_character) ==
    set_content(FormatPart_new("FillCharacter"), << fill_character >>)

new_fraction(denominatorvalue, min_denominator_digits, min_integer_digits, min_numerator_digits, grouping, max_denominator_value) ==
    LET p0 == FormatPart_new("Fraction")
        p1 == set_attr(p0, "number:denominator-value", NatToString(denominatorvalue))
        p2 == IF IsSome(max_denominator_value)
              THEN set_attr(p1, "number:max-denominator-value",
                            NatToString(Unwrap(max_denominator_value)))
              ELSE p1
        p3 == set_attr(p2, "number:min-denominator-digits",
                       NatToString(min_denominator_digits))
        p4 == set_attr(p3, "number:min-integer-digits", NatToString(min_integer_digits))
        p5 == set_attr(p4, "number:min-numerator-digits",
                       NatToString(min_numerator_digits))
    IN IF grouping THEN set_attr(p5, "number:grouping", S_true) ELSE p5

new_scientific_number(decimal_places, grouping, min_exponentdigits, min_integer_digits) ==
    LET p0 == FormatPart_new("ScientificNumber")
        p1 == set_attr(p0, "number:decimal-places", NatToString(decimal_places))
        p2 == IF grouping THEN set_attr(p1, "number:grouping", S_true) ELSE p1
        p3 == IF IsSome(min_exponentdigits)
              THEN set_attr(p2, "number:min-exponentdigits",
                            NatToString(Unwrap(min_exponentdigits)))
              ELSE p2
    IN IF IsSome(min_integer_digits)
       THEN set_attr(p3, "number:min-integer-digits",
                     NatToString(Unwrap(min_integer_digits)))
       ELSE p3

new_currency_symbol(locale, symbol) ==
    LET p0 == new_with_content("CurrencySymbol", symbol)
        p1 == set_attr(p0, "number:language", Subtag_to_string(locale.language))
    IN IF IsSome(locale.region)
       THEN set_attr(p1, "number:country", Subtag_to_string(Unwrap(locale.region)))
       ELSE p1

\* the shared tail of the date-part constructors: number:calendar is
\* written unless the calendar is FormatCalendar::Default
with_calendar(p, calendar) ==
    IF calendar # "Default"
    THEN set_attr(p, "number:calendar", FormatCalendar_fmt(calendar))
    ELSE p

new_day(style, calendar) ==
    with_calendar(set_attr(FormatPart_new("Day"), "number:style",
                           FormatNumberStyle_fmt(style)), calendar)

new_month(style, textual, possessive_form, calendar) ==
    LET p0 == FormatPart_new("Month")
        p1 == set_attr(p0, "number:style", FormatNumberStyle_fmt(style))
        p2 == set_attr(p1, "number:textual", FormatTextual_fmt(textual))
        p3 == IF possessive_form # "Possessiv"
              THEN set_attr(p2, "number:possessive-form", BoolToString(TRUE))
              ELSE p2
    IN with_calendar(p3, calendar)

new_year(style, calendar) ==
    with_calendar(set_attr(FormatPart_new("Year"), "number:style",
                           FormatNumberStyle_fmt(style)), calendar)

new_era(number, calendar) ==
    with_calendar(set_attr(FormatPart_new("Era"), "number:style",
                           FormatNumberStyle_fmt(number)), calendar)

new_day_of_week(style, calendar) ==
    with_calendar(set_attr(FormatPart_new("DayOfWeek"), "number:style",
                           FormatNumberStyle_fmt(style)), calendar)

\* mutant of new_week_of_year: number:calendar is written for every calendar
new_week_of_year_always(calendar) ==
    set_attr(FormatPart_new("WeekOfYear"), "number:calendar", FormatCalendar_fmt(calendar))

new_week_of_year(calendar) ==
    with_calendar(FormatPart_new("WeekOfYear"), calendar)

new_quarter(style, calendar) ==
    with_calendar(set_attr(FormatPart_new("Quarter"), "number:style",
                           FormatNumberStyle_fmt(style)), calendar)

new_hours(style) ==
    set_attr(FormatPart_new("Hours"), "number:style", FormatNumberStyle_fmt(style))

new_minutes(style) ==
    set_attr(FormatPart_new("Minutes"), "number:style", FormatNumberStyle_fmt(style))

new_seconds(style, decimal_places) ==
    set_attr(set_attr(FormatPart_new("Seconds"), "number:style",
                      FormatNumberStyle_fmt(style)),
             "number:decimal-places", NatToString(decimal_places))

new_am_pm == FormatPart_new("AmPm")

new_boolean == FormatPart_new("Boolean")

new_text(text) == new_with_content("Text", text)

new_text_content == FormatPart_new("TextContent")

----------------------------------------------------------------------------
(* chrono::NaiveDateTime and its strftime items, chrono::Duration. *)

NaiveDateTime(y, mo, d, h, mi, s) ==
    [year |-> y, month |-> mo, day |-> d, hour |-> h, minute |-> mi, second |-> s]

IsLeapYear(y) == (y % 4 = 0 /\ y % 100 # 0) \/ y % 400 = 0
DaysInMonth(y, mo) ==
    CASE mo \in {4, 6, 9, 11} -> 30
      [] mo = 2 -> (IF IsLeapYear(y) THEN 29 ELSE 28)
      [] OTHER -> 31

RECURSIVE DaysBeforeMonth(_, _)
DaysBeforeMonth(y, mo) ==
    IF mo = 1 THEN 0 ELSE DaysBeforeMonth(y, mo - 1) + DaysInMonth(y, mo - 1)

\* NaiveDate::ordinal: the day of the year, from 1
Ordinal(d) == DaysBeforeMonth(d.year, d.month) + d.day

\* days from 0001-01-01 (a Monday) to the first day of year y
DaysBeforeYear(y) ==
    365 * (y - 1) + ((y - 1) \div 4) - ((y - 1) \div 100) + ((y - 1) \div 400)

\* Weekday::num_days_from_monday
NumDaysFromMonday(d) == (DaysBeforeYear(d.year) + Ordinal(d) - 1) % 7

\* %W: the week of the year, weeks starting on Monday, from 0
WeekFromMon(d) == (Ordinal(d) + 6 - NumDaysFromMonday(d)) \div 7

\* Timelike::hour12: the hour on the 12-hour clock, 1..12
hour12(h) == IF h % 12 = 0 THEN 12 ELSE h % 12

LongMonthNames ==
    << <<"J", "a", "n", "u", "a", "r", "y">>,
       <<"F", "e", "b", "r", "u", "a", "r", "y">>,
       <<"M", "a", "r", "c", "h">>,
       <<"A", "p", "r", "i", "l">>,
       <<"M", "a", "y">>,
       <<"J", "u", "n", "e">>,
       <<"J", "u", "l", "y">>,
       <<"A", "u", "g", "u", "s", "t">>,
       <<"S", "e", "p", "t", "e", "m", "b", "e", "r">>,
       <<"O", "c", "t", "o", "b", "e", "r">>,
       <<"N", "o", "v", "e", "m", "b", "e", "r">>,
       <<"D", "e", "c", "e", "m", "b", "e", "r">> >>
ShortMonthNames == [i \in 1..12 |-> SubSeq(LongMonthNames[i], 1, 3)]
LongWeekdayNames ==
    << <<"M", "o", "n", "d", "a", "y">>,
       <<"T", "u", "e", "s", "d", "a", "y">>,
       <<"W", "e", "d", "n", "e", "s", "d", "a", "y">>,
       <<"T", "h", "u", "r", "s", "d", "a", "y">>,
       <<"F", "r", "i", "d", "a", "y">>,
       <<"S", "a", "t", "u", "r", "d", "a", "y">>,
       <<"S", "u", "n", "d", "a", "y">> >>
ShortWeekdayNames == [i \in 1..7 |-> SubSeq(LongWeekdayNames[i], 1, 3)]

\* d.format(item).to_string() for the strftime items the renderer uses
Strftime(d, item) ==
    CASE item = "%d" -> ZeroPad(NatToString(d.day), 2)
      [] item = "%-d" -> NatToString(d.day)
      [] item = "%b" -> ShortMonthNames[d.month]
      [] item = "%B" -> LongMonthNames[d.month]
      [] item = "%m" -> ZeroPad(NatToString(d.month), 2)
      [] item = "%-m" -> NatToString(d.month)
      [] item = "%Y" -> ZeroPad(NatToString(d.year), 4)
      [] item = "%y" -> ZeroPad(NatToString(d.year % 100), 2)
      [] item = "%A" -> LongWeekdayNames[NumDaysFromMonday(d) + 1]
      [] item = "%a" -> ShortWeekdayNames[NumDaysFromMonday(d) + 1]
      [] item = "%W" -> ZeroPad(NatToString(WeekFromMon(d)), 2)
      [] item = "%-W" -> NatToString(WeekFromMon(d))
      [] item = "%H" -> ZeroPad(NatToString(d.hour), 2)
      [] item = "%-H" -> NatToString(d.hour)
      [] item = "%I" -> ZeroPad(NatToString(hour12(d.hour)), 2)
      [] item = "%-I" -> NatToString(hour12(d.hour))
      [] item = "%M" -> ZeroPad(NatToString(d.minute), 2)
      [] item = "%-M" -> NatToString(d.minute)
      [] item = "%S" -> ZeroPad(NatToString(d.second), 2)
      [] item = "%-S" -> NatToString(d.second)
      [] item = "%p" -> (IF d.hour >= 12 THEN << "P", "M" >> ELSE << "A", "M" >>)

\* chrono::Duration: whole seconds (floor) and the nanoseconds above them
Duration(secs, nanos) == [secs |-> secs, nanos |-> nanos]

\* Duration::num_seconds: the whole seconds, rounded toward zero
num_seconds(d) == IF d.secs < 0 /\ d.nanos > 0 THEN d.secs + 1 ELSE d.secs
\* Duration::num_minutes
num_minutes(d) == TruncDiv(num_seconds(d), 60)
\* Duration::num_hours
num_hours(d) == TruncDiv(num_seconds(d), 3600)

----------------------------------------------------------------------------
(* The interpreter: FormatPart::format_* append one part's contribution to  *)
(* the buffer, ValueFormat::format_* walk the parts in stored order.        *)

\* String::new
String_new == << >>

\* the Text and CurrencySymbol arms: push the content if there is one
push_content(b, p) == IF IsSome(p.content) THEN b \o Unwrap(p.content) ELSE b

\* mutant of FormatPart::format_boolean: every part that has content emits it
part_format_boolean_any_content(b, p, v) ==
    CASE p.part_type = "Boolean" -> b \o (IF v THEN S_true ELSE S_false)
      [] OTHER -> IF IsSome(p.content) THEN b \o Unwrap(p.content) ELSE b

\* mutant of FormatPart::format_boolean: the token follows the format's
\* language
part_format_boolean_localized(b, p, v) ==
    CASE p.part_type = "Boolean" ->
           IF "number:language" \in DOMAIN attr /\ attr["number:language"] = << "d", "e" >>
           THEN b \o (IF v THEN << "w", "a", "h", "r" >> ELSE << "f", "a", "l", "s", "c", "h" >>)
           ELSE b \o (IF v THEN S_true ELSE S_false)
      [] p.part_type = "Text" -> push_content(b, p)
      [] OTHER -> b

\* FormatPart::format_boolean
part_format_boolean(b, p, v) ==
    CASE p.part_type = "Boolean" -> b \o (IF v THEN S_true ELSE S_false)
      [] p.part_type = "Text" -> push_content(b, p)
      [] OTHER -> b

\* mutant of FormatPart::format_float: Number reads number:min-decimal-places
part_format_float_min_places(b, p, f) ==
    CASE p.part_type = "Number" ->
           LET dec == ParseUsize(attr_def(p, "number:min-decimal-places", << "0" >>))
           IN IF IsSome(dec) THEN b \o FormatFixed(Unwrap(dec), f) ELSE b
      [] p.part_type = "ScientificNumber" -> b \o FormatLowerExp(f)
      [] p.part_type = "CurrencySymbol" -> push_content(b, p)
      [] p.part_type = "Text" -> push_content(b, p)
      [] OTHER -> b

\* FormatPart::format_float
part_format_float(b, p, f) ==
    CASE p.part_type = "Number" ->
           LET dec == ParseUsize(attr_def(p, "number:decimal-places", << "0" >>))
           IN IF IsSome(dec) THEN b \o FormatFixed(Unwrap(dec), f) ELSE b
      [] p.part_type = "ScientificNumber" -> b \o FormatLowerExp(f)
      [] p.part_type = "CurrencySymbol" -> push_content(b, p)
      [] p.part_type = "Text" -> push_content(b, p)
      [] OTHER -> b

\* mutant of FormatPart::format_str: TextContent pushes the part's content
part_format_str_own_content(b, p, s) ==
    CASE p.part_type = "TextContent" -> push_content(b, p)
      [] p.part_type = "Text" -> push_content(b, p)
      [] OTHER -> b

\* FormatPart::format_str
part_format_str(b, p, s) ==
    CASE p.part_type = "TextContent" -> b \o s
      [] p.part_type = "Text" -> push_content(b, p)
      [] OTHER -> b

\* mutant of FormatPart::format_datetime: every style but "short" is long
part_format_datetime_not_short(b, p, d, h12) ==
    LET is_long == attr_def(p, "number:style", << >>) # S_short
        is_text == attr_def(p, "number:textual", << >>) = S_true
    IN CASE p.part_type = "Day" ->
              b \o Strftime(d, IF is_long THEN "%d" ELSE "%-d")
         [] p.part_type = "Month" ->
              IF is_text
              THEN b \o Strftime(d, IF is_long THEN "%b" ELSE "%B")
              ELSE b \o Strftime(d, IF is_long THEN "%m" ELSE "%-m")
         [] p.part_type = "Year" ->
              b \o Strftime(d, IF is_long THEN "%Y" ELSE "%y")
         [] p.part_type = "DayOfWeek" ->
              b \o Strftime(d, IF is_long THEN "%A" ELSE "%a")
         [] p.part_type = "WeekOfYear" ->
              b \o Strftime(d, IF is_long THEN "%W" ELSE "%-W")
         [] p.part_type = "Hours" ->
              IF ~h12
              THEN b \o Strftime(d, IF is_long THEN "%H" ELSE "%-H")
              ELSE b \o Strftime(d, IF is_long THEN "%I" ELSE "%-I")
         [] p.part_type = "Minutes" ->
              b \o Strftime(d, IF is_long THEN "%M" ELSE "%-M")
         [] p.part_type = "Seconds" ->
              b \o Strftime(d, IF is_long THEN "%S" ELSE "%-S")
         [] p.part_type = "AmPm" -> b \o Strftime(d, "%p")
         [] p.part_type = "Text" -> push_content(b, p)
         [] OTHER -> b

\* FormatPart::format_datetime
part_format_datetime(b, p, d, h12) ==
    LET is_long == attr_def(p, "number:style", << >>) = S_long
        is_text == attr_def(p, "number:textual", << >>) = S_true
    IN CASE p.part_type = "Day" ->
              b \o Strftime(d, IF is_long THEN "%d" ELSE "%-d")
         [] p.part_type = "Month" ->
              IF is_text
              THEN b \o Strftime(d, IF is_long THEN "%b" ELSE "%B")
              ELSE b \o Strftime(d, IF is_long THEN "%m" ELSE "%-m")
         [] p.part_type = "Year" ->
              b \o Strftime(d, IF is_long THEN "%Y" ELSE "%y")
         [] p.part_type = "DayOfWeek" ->
              b \o Strftime(d, IF is_long THEN "%A" ELSE "%a")
         [] p.part_type = "WeekOfYear" ->
              b \o Strftime(d, IF is_long THEN "%W" ELSE "%-W")
         [] p.part_type = "Hours" ->
              IF ~h12
              THEN b \o Strftime(d, IF is_long THEN "%H" ELSE "%-H")
              ELSE b \o Strftime(d, IF is_long THEN "%I" ELSE "%-I")
         [] p.part_type = "Minutes" ->
              b \o Strftime(d, IF is_long THEN "%M" ELSE "%-M")
         [] p.part_type = "Seconds" ->
              b \o Strftime(d, IF is_long THEN "%S" ELSE "%-S")
         [] p.part_type = "AmPm" -> b \o Strftime(d, "%p")
         [] p.part_type = "Text" -> push_content(b, p)
         [] OTHER -> b

\* mutant of FormatPart::format_time_duration: the Text arm is missing
part_format_time_duration_no_text(b, p, d) ==
    CASE p.part_type = "Hours" -> b \o IntToString(num_hours(d))
      [] p.part_type = "Minutes" -> b \o IntToString(TruncRem(num_minutes(d), 60))
      [] p.part_type = "Seconds" -> b \o IntToString(TruncRem(num_seconds(d), 60))
      [] OTHER -> b

\* mutant of FormatPart::format_time_duration: Hours is the hour of the day
part_format_time_duration_of_day(b, p, d) ==
    CASE p.part_type = "Hours" -> b \o IntToString(TruncRem(num_hours(d), 24))
      [] p.part_type = "Minutes" -> b \o IntToString(TruncRem(num_minutes(d), 60))
      [] p.part_type = "Seconds" -> b \o IntToString(TruncRem(num_seconds(d), 60))
      [] p.part_type = "Text" -> push_content(b, p)
      [] OTHER -> b

\* FormatPart::format_time_duration
part_format_time_duration(b, p, d) ==
    CASE p.part_type = "Hours" -> b \o IntToString(num_hours(d))
      [] p.part_type = "Minutes" -> b \o IntToString(TruncRem(num_minutes(d), 60))
      [] p.part_type = "Seconds" -> b \o IntToString(TruncRem(num_seconds(d), 60))
      [] p.part_type = "Text" -> push_content(b, p)
      [] OTHER -> b

\* the loops `for p in &self.parts { p.format_xxx(&mut buf, ..) }`
RECURSIVE loop_boolean(_, _, _)
loop_boolean(b, ps, v) ==
    IF ps = << >> THEN b
    ELSE loop_boolean(part_format_boolean(b, Head(ps), v), Tail(ps), v)

RECURSIVE loop_float(_, _, _)
loop_float(b, ps, f) ==
    IF ps = << >> THEN b
    ELSE loop_float(part_format_float(b, Head(ps), f), Tail(ps), f)

RECURSIVE loop_str(_, _, _)
loop_str(b, ps, s) ==
    IF ps = << >> THEN b
    ELSE loop_str(part_format_str(b, Head(ps), s), Tail(ps), s)

RECURSIVE loop_datetime(_, _, _, _)
loop_datetime(b, ps, d, h12) ==
    IF ps = << >> THEN b
    ELSE loop_datetime(part_format_datetime(b, Head(ps), d, h12), Tail(ps), d, h12)

RECURSIVE loop_time_duration(_, _, _)
loop_time_duration(b, ps, d) ==
    IF ps = << >> THEN b
    ELSE loop_time_duration(part_format_time_duration(b, Head(ps), d), Tail(ps), d)

\* mutant of any_am_pm: only the first part is looked at
any_am_pm_first(ps) == Len(ps) > 0 /\ ps[1].part_type = "AmPm"

\* the pre-pass of format_datetime: is any part an AmPm part?
any_am_pm(ps) == \E i \in 1..Len(ps) : ps[i].part_type = "AmPm"

\* ValueFormat::format_boolean
format_boolean(ps, v) == loop_boolean(String_new, ps, v)

\* mutant of ValueFormat::format_float: only formats of a numeric value
\* type render floats
format_float_typed(ps, f) ==
    IF v_type \in { "Number", "Percentage", "Currency" }
    THEN loop_float(String_new, ps, f) ELSE String_new

\* ValueFormat::format_float
format_float(ps, f) == loop_float(String_new, ps, f)

\* mutant of ValueFormat::format_str: a format without parts passes the
\* string through
format_str_passthrough(ps, s) == IF ps = << >> THEN s ELSE loop_str(String_new, ps, s)

\* ValueFormat::format_str
format_str(ps, s) == loop_str(String_new, ps, s)

\* the parts in the opposite order
Reverse(ps) == [i \in 1..Len(ps) |-> ps[Len(ps) + 1 - i]]

\* mutant of ValueFormat::format_datetime: the parts are walked back to front
format_datetime_rev(ps, d) == loop_datetime(String_new, Reverse(ps), d, any_am_pm(ps))

\* mutant of ValueFormat::format_datetime: there is no pre-pass, a part is
\* rendered on the 12-hour clock once an AmPm part has been walked
RECURSIVE loop_datetime_seen(_, _, _, _)
loop_datetime_seen(b, ps, d, seen) ==
    IF ps = << >> THEN b
    ELSE LET h12 == seen \/ Head(ps).part_type = "AmPm"
         IN loop_datetime_seen(part_format_datetime(b, Head(ps), d, h12), Tail(ps), d, h12)
format_datetime_no_prepass(ps, d) == loop_datetime_seen(String_new, ps, d, FALSE)

\* ValueFormat::format_datetime
format_datetime(ps, d) == loop_datetime(String_new, ps, d, any_am_pm(ps))

\* ValueFormat::format_time_duration
format_time_duration(ps, d) == loop_time_duration(String_new, ps, d)

----------------------------------------------------------------------------
(* ValueFormat: constructors, accessors and push operations, as functions   *)
(* of the fields they read and write.  A constructor or setter whose        *)
(* assert_ne! fails yields Panic.                                           *)

StyleOrigin == { "Content", "Styles" }
StyleUse == { "Default", "Named", "Automatic" }

Panic == None
Ok(v) == Some(v)

\* the struct literal shared by the three constructors
ValueFormat_struct(n, value_type) ==
    [name |-> n, v_type |-> value_type, origin |-> "Styles", styleuse |-> "Default",
     attr |-> AttrMap2_new, textstyle |-> AttrMap2_new, parts |-> << >>,
     stylemaps |-> None]

\* ValueFormat::new
ValueFormat_new == ValueFormat_struct(<< >>, "Text")

\* ValueFormat::set_display_name / display_name
set_display_name(a, n) == AttrMap2_set_attr(a, "number:country", n)
display_name(a) == AttrMap2_attr(a, "number:country")

\* ValueFormat::set_title / title
set_title(a, title) == AttrMap2_set_attr(a, "number:title", title)
title(a) == AttrMap2_attr(a, "number:title")

\* ValueFormat::set_country / country
set_country(a, c) == AttrMap2_set_attr(a, "number:country", Subtag_to_string(c))
country(a) ==
    LET v == AttrMap2_attr(a, "number:country")
    IN IF IsSome(v) THEN Region_parse(Unwrap(v)) ELSE None

\* ValueFormat::set_language / language
set_language(a, l) == AttrMap2_set_attr(a, "number:language", Subtag_to_string(l))
language(a) ==
    LET v == AttrMap2_attr(a, "number:language")
    IN IF IsSome(v) THEN Language_parse(Unwrap(v)) ELSE None

\* ValueFormat::set_script / script
set_script(a, sc) == AttrMap2_set_attr(a, "number:script", Subtag_to_string(sc))
script(a) ==
    LET v == AttrMap2_attr(a, "number:script")
    IN IF IsSome(v) THEN Script_parse(Unwrap(v)) ELSE None

\* ValueFormat::transliteration_country
transliteration_country(a) ==
    LET v == AttrMap2_attr(a, "number:transliteration-country")
    IN IF IsSome(v) THEN Region_parse(Unwrap(v)) ELSE None

\* ValueFormat::transliteration_language
transliteration_language(a) ==
    LET v == AttrMap2_attr(a, "number:transliteration-language")
    IN IF IsSome(v) THEN Language_parse(Unwrap(v)) ELSE None

\* ValueFormat::transliteration_format: the first char of the stored string
transliteration_format(a) ==
    LET v == AttrMap2_attr(a, "number:transliteration-format")
    IN IF IsSome(v) /\ Len(Unwrap(v)) > 0 THEN Some(Unwrap(v)[1]) ELSE None

\* crate::style::units::TransliterationStyle with its Display and FromStr
TransliterationStyle == { "Short", "Medium", "Long" }
S_medium == << "m", "e", "d", "i", "u", "m" >>
TransliterationStyle_fmt(style) ==
    CASE style = "Short" -> S_short [] style = "Medium" -> S_medium [] OTHER -> S_long
TransliterationStyle_from_str(s) ==
    CASE s = S_short -> Some("Short")
      [] s = S_medium -> Some("Medium")
      [] s = S_long -> Some("Long")
      [] OTHER -> None

\* <bool as FromStr>::from_str
bool_from_str(s) ==
    CASE s = S_true -> Some(TRUE) [] s = S_false -> Some(FALSE) [] OTHER -> None

\* ValueFormat::set_transliteration_country
set_transliteration_country(a, c) ==
    AttrMap2_set_attr(a, "number:transliteration-country", Subtag_to_string(c))

\* ValueFormat::set_transliteration_language
set_transliteration_language(a, l) ==
    AttrMap2_set_attr(a, "number:transliteration-language", Subtag_to_string(l))

\* ValueFormat::set_transliteration_format: the char as a String
set_transliteration_format(a, c) ==
    AttrMap2_set_attr(a, "number:transliteration-format", << c >>)

\* ValueFormat::set_transliteration_style
set_transliteration_style(a, style) ==
    AttrMap2_set_attr(a, "number:transliteration-style", TransliterationStyle_fmt(style))

\* ValueFormat::transliteration_style
transliteration_style(a) ==
    LET v == AttrMap2_attr(a, "number:transliteration-style")
    IN IF IsSome(v) THEN TransliterationStyle_from_str(Unwrap(v)) ELSE None

\* ValueFormat::set_volatile / volatile
set_volatile(a, flag) == AttrMap2_set_attr(a, "style:volatile", BoolToString(flag))
volatile(a) ==
    LET v == AttrMap2_attr(a, "style:volatile")
    IN IF IsSome(v) THEN bool_from_str(Unwrap(v)) ELSE None

\* mutant of set_automatic_order: the flag is written to style:volatile
set_automatic_order_volatile(a, flag) ==
    AttrMap2_set_attr(a, "style:volatile", BoolToString(flag))

\* ValueFormat::set_automatic_order / automatic_order
set_automatic_order(a, flag) ==
    AttrMap2_set_attr(a, "number:automatic-order", BoolToString(flag))
automatic_order(a) ==
    LET v == AttrMap2_attr(a, "number:automatic-order")
    IN IF IsSome(v) THEN bool_from_str(Unwrap(v)) ELSE None

\* pub(crate) ValueFormat::attrmap_mut().set_attr: a raw string stored by
\* the crate's reader
attrmap_mut_set_attr(a, k, v) == AttrMap2_set_attr(a, k, v)

\* ValueFormat::set_name / name
set_name(n) == n
name_of(n) == n

\* ValueFormat::set_origin / set_styleuse
set_origin(o) == o
set_styleuse(u) == u

\* ValueFormat::push_stylemap: get_or_insert_with(Vec::new).push(stylemap)
push_stylemap(sms, stylemap) ==
    Some(Append(IF IsSome(sms) THEN Unwrap(sms) ELSE << >>, stylemap))

\* ValueFormat::stylemaps
stylemaps_of(sms) == sms

\* mutant of stylemaps_mut: a missing Vec is not created
stylemaps_mut_no_insert(sms) == sms

\* ValueFormat::stylemaps_mut: get_or_insert_with(Vec::new)
stylemaps_mut(sms) == IF IsSome(sms) THEN sms ELSE Some(<< >>)

\* ValueFormat::textstyle_mut().set_attr
textstyle_mut_set_attr(ts, k, v) == AttrMap2_set_attr(ts, k, v)

\* mutant of new_named: the assert_ne! on the value type is missing
new_named_unchecked(n, value_type) == Ok(ValueFormat_struct(n, value_type))

\* ValueFormat::new_named
new_named(n, value_type) ==
    IF value_type = "Empty" THEN Panic ELSE Ok(ValueFormat_struct(n, value_type))

\* mutant of new_localized: the region of the locale is not stored
new_localized_no_region(n, locale, value_type) ==
    IF value_type = "Empty" THEN Panic
    ELSE LET v == ValueFormat_struct(n, value_type)
             a1 == set_language(v.attr, locale.language)
             a3 == IF IsSome(locale.script)
                   THEN set_script(a1, Unwrap(locale.script)) ELSE a1
         IN Ok([v EXCEPT !.attr = a3])

\* ValueFormat::new_localized
new_localized(n, locale, value_type) ==
    IF value_type = "Empty" THEN Panic
    ELSE LET v == ValueFormat_struct(n, value_type)
             a1 == set_language(v.attr, locale.language)
             a2 == IF IsSome(locale.region)
                   THEN set_country(a1, Unwrap(locale.region)) ELSE a1
             a3 == IF IsSome(locale.script)
                   THEN set_script(a2, Unwrap(locale.script)) ELSE a2
         IN Ok([v EXCEPT !.attr = a3])

\* mutant of set_value_type: the assert_ne! on the value type is missing
set_value_type_unchecked(value_type) == Ok(value_type)

\* ValueFormat::set_value_type: the new v_type, or Panic
set_value_type(value_type) ==
    IF value_type = "Empty" THEN Panic ELSE Ok(value_type)

\* ValueFormat::value_type
value_type(vt) == vt

\* mutant of push_part: the part is inserted at the front
push_part_front(ps, part) == << part >> \o ps

\* ValueFormat::push_part
push_part(ps, part) == Append(ps, part)

\* mutant of push_parts: the parts are copied and partvec keeps them
push_parts_copy(ps, vec) == [parts |-> ps \o vec, partvec |-> vec]

\* ValueFormat::push_parts: Vec::append moves every element of partvec to
\* the end of parts and leaves partvec empty
push_parts(ps, vec) == [parts |-> ps \o vec, partvec |-> << >>]

\* ValueFormat::parts
parts_of(ps) == ps

----------------------------------------------------------------------------
(* The push builders of ValueFormat: each builds one part and hands it to   *)
(* push_part.                                                               *)

push_number_full(ps, decimal_places, grouping, min_decimal_places, mininteger_digits, display_factor, decimal_replacement) ==
    push_part(ps, new_number(decimal_places, grouping, min_decimal_places,
                             mininteger_digits, display_factor, decimal_replacement))
push_number(ps, decimal_places, grouping) ==
    push_part(ps, new_number(decimal_places, grouping, 0, 1, None, None))
\* mutant of push_number_fix: the minimum is left at 0, as push_number does
push_number_fix_plain(ps, decimal_places, grouping) == push_number(ps, decimal_places, grouping)
push_number_fix(ps, decimal_places, grouping) ==
    push_part(ps, new_number(decimal_places, grouping, decimal_places, 1, None, None))
push_fill_character(ps, fill_character) ==
    push_part(ps, new_fill_character(fill_character))
push_scientific_number(ps, decimal_places, grouping, min_exponentdigits, min_integer_digits) ==
    push_part(ps, new_scientific_number(decimal_places, grouping, min_exponentdigits,
                                        min_integer_digits))
push_fraction(ps, denominatorvalue, min_denominator_digits, min_integer_digits, min_numerator_digits, grouping, max_denominator_value) ==
    push_part(ps, new_fraction(denominatorvalue, min_denominator_digits,
                               min_integer_digits, min_numerator_digits, grouping,
                               max_denominator_value))
push_currency_symbol(ps, locale, symbol) ==
    push_part(ps, new_currency_symbol(locale, symbol))
push_day(ps, style, calendar) == push_part(ps, new_day(style, calendar))
push_month(ps, style, textual, possessive_form, calendar) ==
    push_part(ps, new_month(style, textual, possessive_form, calendar))
push_year(ps, style, calendar) == push_part(ps, new_year(style, calendar))
push_era(ps, style, calendar) == push_part(ps, new_era(style, calendar))
push_day_of_week(ps, style, calendar) == push_part(ps, new_day_of_week(style, calendar))
push_week_of_year(ps, calendar) == push_part(ps, new_week_of_year(calendar))
push_quarter(ps, style, calendar) == push_part(ps, new_quarter(style, calendar))
push_hours(ps, style) == push_part(ps, new_hours(style))
push_minutes(ps, style) == push_part(ps, new_minutes(style))
push_seconds(ps, style, decimal_places) ==
    push_part(ps, new_seconds(style, decimal_places))
push_am_pm(ps) == push_part(ps, new_am_pm)
push_boolean(ps) == push_part(ps, new_boolean)
push_text(ps, text) == push_part(ps, new_text(text))
push_text_content(ps) == push_part(ps, new_text_content)

----------------------------------------------------------------------------
(* style::color_string, which encodes a colour for the colour attributes.   *)

\* color::Rgb<u8>
Rgb(r, g, b) == [r |-> r, g |-> g, b |-> b]

HexDigits ==
    << "0", "1", "2", "3", "4", "5", "6", "7", "8", "9", "a", "b", "c", "d", "e", "f" >>

\* {:x} of an unsigned integer: the hexadecimal digits, no padding
RECURSIVE LowerHex(_)
LowerHex(n) ==
    IF n < 16 THEN << HexDigits[n + 1] >>
    ELSE LowerHex(n \div 16) \o << HexDigits[(n % 16) + 1] >>

\* mutant of color_string: the channels are written without padding
color_string_unpadded(color) ==
    << "#" >> \o LowerHex(color.r) \o LowerHex(color.g) \o LowerHex(color.b)

\* color_string: format!("#{:02x}{:02x}{:02x}", r, g, b)
color_string(color) ==
    << "#" >> \o ZeroPad(LowerHex(color.r), 2) \o ZeroPad(LowerHex(color.g), 2)
              \o ZeroPad(LowerHex(color.b), 2)

----------------------------------------------------------------------------
(* The ready-made formats. *)

\* create_currency_prefix
create_currency_prefix(n, symbol_locale, symbol) ==
    LET v == Unwrap(new_named(n, "Currency"))
        p1 == push_currency_symbol(v.parts, symbol_locale, symbol)
        p2 == push_text(p1, << " " >>)
        p3 == push_number_fix(p2, 2, TRUE)
    IN Ok([v EXCEPT !.parts = p3])

\* mutant of create_currency_suffix: the symbol is pushed first
create_currency_suffix_symbol_first(n, symbol_locale, symbol) ==
    create_currency_prefix(n, symbol_locale, symbol)

\* create_currency_suffix
create_currency_suffix(n, symbol_locale, symbol) ==
    LET v == Unwrap(new_named(n, "Currency"))
        p1 == push_number_fix(v.parts, 2, TRUE)
        p2 == push_text(p1, << " " >>)
        p3 == push_currency_symbol(p2, symbol_locale, symbol)
    IN Ok([v EXCEPT !.parts = p3])

\* create_loc_datetime_format
create_loc_datetime_format(n, locale) ==
    LET v == Unwrap(new_localized(n, locale, "DateTime"))
        p1 == push_day(v.parts, "Long", "Default")
        p2 == push_text(p1, << "." >>)
        p3 == push_month(p2, "Long", "Numeric", "Nominativ", "Default")
        p4 == push_text(p3, << "." >>)
        p5 == push_year(p4, "Long", "Default")
        p6 == push_text(p5, << " " >>)
        p7 == push_hours(p6, "Long")
        p8 == push_text(p7, << ":" >>)
        p9 == push_minutes(p8, "Long")
        p10 == push_text(p9, << ":" >>)
        p11 == push_seconds(p10, "Long", 0)
    IN Ok([v EXCEPT !.parts = p11])

\* create_datetime_format
create_datetime_format(n) ==
    LET v == Unwrap(new_named(n, "DateTime"))
        p1 == push_year(v.parts, "Long", "Default")
        p2 == push_text(p1, << "-" >>)
        p3 == push_month(p2, "Long", "Numeric", "Nominativ", "Default")
        p4 == push_text(p3, << "-" >>)
        p5 == push_day(p4, "Long", "Default")
        p6 == push_text(p5, << " " >>)
        p7 == push_hours(p6, "Long")
        p8 == push_text(p7, << ":" >>)
        p9 == push_minutes(p8, "Long")
        p10 == push_text(p9, << ":" >>)
        p11 == push_seconds(p10, "Long", 0)
    IN Ok([v EXCEPT !.parts = p11])

----------------------------------------------------------------------------
(* State machine. *)

NoCall == [op |-> "none", arg |-> << >>]

\* a format exists and the caller holds no rendering result
Quiet == status = "ok" /\ call.op = "none"

\* the variables take the fields of a freshly constructed ValueFormat
Install(v) ==
    /\ name' = v.name
    /\ v_type' = v.v_type
    /\ origin' = v.origin
    /\ styleuse' = v.styleuse
    /\ attr' = v.attr
    /\ textstyle' = v.textstyle
    /\ parts' = v.parts
    /\ stylemaps' = v.stylemaps

\* the state before any constructor has run
InitNone ==
    /\ status = "none"
    /\ name = << >>
    /\ v_type = "Unset"
    /\ origin = "Unset"
    /\ styleuse = "Unset"
    /\ attr = AttrMap2_new
    /\ textstyle = AttrMap2_new
    /\ parts = << >>
    /\ stylemaps = None
    /\ partvec = << >>
    /\ pushed = << >>
    /\ smcalls = << >>
    /\ call = NoCall
    /\ buf = << >>

\* the state right after ValueFormat::new()
InitNew ==
    /\ status = "ok"
    /\ name = ValueFormat_new.name
    /\ v_type = ValueFormat_new.v_type
    /\ origin = ValueFormat_new.origin
    /\ styleuse = ValueFormat_new.styleuse
    /\ attr = ValueFormat_new.attr
    /\ textstyle = ValueFormat_new.textstyle
    /\ parts = ValueFormat_new.parts
    /\ stylemaps = ValueFormat_new.stylemaps
    /\ pushed = << >>
    /\ smcalls = << >>
    /\ call = NoCall
    /\ buf = << >>

\* a constructor call: the format it returns, or a panic and no format
Construct(result) ==
    /\ status = "none"
    /\ IF IsSome(result)
       THEN status' = "ok" /\ Install(Unwrap(result))
       ELSE status' = "panicked" /\ UNCHANGED fmtvars
    /\ UNCHANGED << partvec, pushed, smcalls, call, buf >>

New == Construct(Ok(ValueFormat_new))

NewNamed(n, vt) == Construct(new_named(n, vt))

NewLocalized(n, locale, vt) == Construct(new_localized(n, locale, vt))

SetValueType(vt) ==
    /\ Quiet
    /\ LET r == set_value_type(vt)
       IN IF IsSome(r)
          THEN v_type' = Unwrap(r) /\ UNCHANGED status
          ELSE status' = "panicked" /\ UNCHANGED v_type
    /\ UNCHANGED << name, origin, styleuse, attr, textstyle, parts, stylemaps,
                    partvec, pushed, smcalls, call, buf >>

\* a setter that writes the format's attribute map
SetAttr(a) ==
    /\ Quiet
    /\ attr' = a
    /\ UNCHANGED << status, name, v_type, origin, styleuse, textstyle, parts,
                    stylemaps, partvec, pushed, smcalls, call, buf >>

SetDisplayName(n) == SetAttr(set_display_name(attr, n))

SetCountry(c) == SetAttr(set_country(attr, c))

SetLanguage(l) == SetAttr(set_language(attr, l))

SetScript(sc) == SetAttr(set_script(attr, sc))

SetTitle(t) == SetAttr(set_title(attr, t))

SetTransliterationCountry(c) == SetAttr(set_transliteration_country(attr, c))

SetTransliterationLanguage(l) == SetAttr(set_transliteration_language(attr, l))

SetTransliterationFormat(c) == SetAttr(set_transliteration_format(attr, c))

SetTransliterationStyle(st) == SetAttr(set_transliteration_style(attr, st))

SetVolatile(b) == SetAttr(set_volatile(attr, b))

SetAutomaticOrder(b) == SetAttr(set_automatic_order(attr, b))

\* the reader stores the string it found in the file
AttrmapMutSetAttr(k, v) == SetAttr(attrmap_mut_set_attr(attr, k, v))

SetName(n) ==
    /\ Quiet
    /\ name' = set_name(n)
    /\ UNCHANGED << status, v_type, origin, styleuse, attr, textstyle, parts,
                    stylemaps, partvec, pushed, smcalls, call, buf >>

SetOrigin(o) ==
    /\ Quiet
    /\ origin' = set_origin(o)
    /\ UNCHANGED << status, name, v_type, styleuse, attr, textstyle, parts,
                    stylemaps, partvec, pushed, smcalls, call, buf >>

SetStyleuse(u) ==
    /\ Quiet
    /\ styleuse' = set_styleuse(u)
    /\ UNCHANGED << status, name, v_type, origin, attr, textstyle, parts,
                    stylemaps, partvec, pushed, smcalls, call, buf >>

TextstyleSetAttr(k, v) ==
    /\ Quiet
    /\ textstyle' = textstyle_mut_set_attr(textstyle, k, v)
    /\ UNCHANGED << status, name, v_type, origin, styleuse, attr, parts,
                    stylemaps, partvec, pushed, smcalls, call, buf >>

PushStylemap(sm) ==
    /\ Quiet
    /\ (IsSome(stylemaps) => Len(Unwrap(stylemaps)) < MaxStylemaps)
    /\ stylemaps' = push_stylemap(stylemaps, sm)
    /\ smcalls' = Append(smcalls, << "push_stylemap", sm >>)
    /\ UNCHANGED << status, name, v_type, origin, styleuse, attr, textstyle,
                    parts, partvec, pushed, call, buf >>

\* stylemaps_mut(), the caller leaving the Vec as it is
StylemapsMut ==
    /\ Quiet
    /\ Len(smcalls) < MaxStylemapCalls
    /\ stylemaps' = stylemaps_mut(stylemaps)
    /\ smcalls' = Append(smcalls, << "stylemaps_mut" >>)
    /\ UNCHANGED << status, name, v_type, origin, styleuse, attr, textstyle,
                    parts, partvec, pushed, call, buf >>

\* stylemaps_mut().push(sm)
StylemapsMutPush(sm) ==
    /\ Quiet
    /\ (IsSome(stylemaps) => Len(Unwrap(stylemaps)) < MaxStylemaps)
    /\ stylemaps' = Some(Append(Unwrap(stylemaps_mut(stylemaps)), sm))
    /\ smcalls' = Append(smcalls, << "stylemaps_mut", sm >>)
    /\ UNCHANGED << status, name, v_type, origin, styleuse, attr, textstyle,
                    parts, partvec, pushed, call, buf >>

CreateCurrencyPrefix(n, l, sym) == Construct(create_currency_prefix(n, l, sym))

CreateCurrencySuffix(n, l, sym) == Construct(create_currency_suffix(n, l, sym))

CreateLocDatetimeFormat(n, l) == Construct(create_loc_datetime_format(n, l))

CreateDatetimeFormat(n) == Construct(create_datetime_format(n))

\* a call of color_string: the caller now holds the returned String
ColorString(color) ==
    /\ Quiet
    /\ call' = [op |-> "color_string", arg |-> color]
    /\ buf' = color_string(color)
    /\ UNCHANGED << status, fmtvars, partvec, pushed, smcalls >>

\* a push: parts becomes newparts; the history records the part built
Pushing(newparts, built) ==
    /\ Quiet
    /\ Len(parts) < MaxParts
    /\ parts' = newparts
    /\ pushed' = Append(pushed, built)
    /\ UNCHANGED << status, name, v_type, origin, styleuse, attr, textstyle,
                    stylemaps, partvec, smcalls, call, buf >>

PushPart(p) == Pushing(push_part(parts, p), p)

\* push_part in the runs of one rendering entry point, which build longer
\* formats from fewer kinds of parts
PushPartLong(p) ==
    /\ Quiet
    /\ Len(parts) < MaxLongParts
    /\ parts' = push_part(parts, p)
    /\ pushed' = Append(pushed, p)
    /\ UNCHANGED << status, name, v_type, origin, styleuse, attr, textstyle,
                    stylemaps, partvec, smcalls, call, buf >>

PushParts ==
    /\ Quiet
    /\ LET r == push_parts(parts, partvec)
       IN parts' = r.parts /\ partvec' = r.partvec
    /\ pushed' = pushed \o partvec
    /\ UNCHANGED << status, name, v_type, origin, styleuse, attr, textstyle,
                    stylemaps, smcalls, call, buf >>

\* a rendering call: the caller now holds the returned String
Rendering(op, arg, result) ==
    /\ Quiet
    /\ call' = [op |-> op, arg |-> arg]
    /\ buf' = result
    /\ UNCHANGED << status, fmtvars, partvec, pushed, smcalls >>

FormatBoolean(b) == Rendering("format_boolean", b, format_boolean(parts, b))

FormatFloat(f) == Rendering("format_float", f, format_float(parts, f))

FormatStr(s) == Rendering("format_str", s, format_str(parts, s))

FormatDatetime(d) == Rendering("format_datetime", d, format_datetime(parts, d))

FormatTimeDuration(d) ==
    Rendering("format_time_duration", d, format_time_duration(parts, d))

\* the caller drops the String it was given
DropResult ==
    /\ status = "ok"
    /\ call.op # "none"
    /\ call' = NoCall
    /\ buf' = << >>
    /\ UNCHANGED << status, fmtvars, partvec, pushed, smcalls >>

----------------------------------------------------------------------------
(* Spec: the life cycle of one ValueFormat, from construction on:           *)
(* constructors, set_value_type, the locale and display-name setters, and   *)
(* a few pushes and renderings.                                             *)

SpecNames == { << "f", "1" >> }

R_US == Region_new(<< "U", "S" >>)
R_AT == Region_new(<< "A", "T" >>)
L_en == Language_new(<< "e", "n" >>)
L_de == Language_new(<< "d", "e" >>)
Sc_Latn == Script_new(<< "L", "a", "t", "n" >>)

SpecRegions == { R_US, R_AT }
SpecLanguages == { L_en, L_de }
SpecScripts == { Sc_Latn }
SpecLocales == { Locale_new(L_en, None, Some(R_US)),
                 Locale_new(L_de, Some(Sc_Latn), None) }
\* one display name that happens to have the shape of a region code, one
\* that does not
SpecDisplayNames == { << "d", "e" >>, << "N", "o", " ", "1" >> }
SpecParts == { new_boolean, new_text(<< "X" >>) }

Init == InitNone

Next ==
    \/ New
    \/ \E n \in SpecNames, vt \in ValueType : NewNamed(n, vt)
    \/ \E n \in SpecNames, l \in SpecLocales, vt \in ValueType : NewLocalized(n, l, vt)
    \/ \E vt \in ValueType : SetValueType(vt)
    \/ \E n \in SpecDisplayNames : SetDisplayName(n)
    \/ \E c \in SpecRegions : SetCountry(c)
    \/ \E l \in SpecLanguages : SetLanguage(l)
    \/ \E sc \in SpecScripts : SetScript(sc)
    \/ \E p \in SpecParts : PushPart(p)
    \/ \E b \in BOOLEAN : FormatBoolean(b)
    \/ DropResult

Spec == Init /\ [][Next]_vars

----------------------------------------------------------------------------
(* The push-builder actions, and SpecBuild: a format made by new() that is  *)
(* built up by the push operations and push_parts.                          *)

PushNumberFull(dp, g, mdp, mid, df, dr) ==
    Pushing(push_number_full(parts, dp, g, mdp, mid, df, dr),
            new_number(dp, g, mdp, mid, df, dr))
PushNumber(dp, g) == Pushing(push_number(parts, dp, g), new_number(dp, g, 0, 1, None, None))
PushNumberFix(dp, g) ==
    Pushing(push_number_fix(parts, dp, g), new_number(dp, g, dp, 1, None, None))
PushFillCharacter(c) == Pushing(push_fill_character(parts, c), new_fill_character(c))
PushScientificNumber(dp, g, med, mid) ==
    Pushing(push_scientific_number(parts, dp, g, med, mid),
            new_scientific_number(dp, g, med, mid))
PushFraction(dv, mdd, mid, mnd, g, mdv) ==
    Pushing(push_fraction(parts, dv, mdd, mid, mnd, g, mdv),
            new_fraction(dv, mdd, mid, mnd, g, mdv))
PushCurrencySymbol(l, sym) ==
    Pushing(push_currency_symbol(parts, l, sym), new_currency_symbol(l, sym))
PushDay(st, cal) == Pushing(push_day(parts, st, cal), new_day(st, cal))
PushMonth(st, tx, pf, cal) ==
    Pushing(push_month(parts, st, tx, pf, cal), new_month(st, tx, pf, cal))
PushYear(st, cal) == Pushing(push_year(parts, st, cal), new_year(st, cal))
PushEra(st, cal) == Pushing(push_era(parts, st, cal), new_era(st, cal))
PushDayOfWeek(st, cal) ==
    Pushing(push_day_of_week(parts, st, cal), new_day_of_week(st, cal))
PushWeekOfYear(cal) == Pushing(push_week_of_year(parts, cal), new_week_of_year(cal))
PushQuarter(st, cal) == Pushing(push_quarter(parts, st, cal), new_quarter(st, cal))
PushHours(st) == Pushing(push_hours(parts, st), new_hours(st))
PushMinutes(st) == Pushing(push_minutes(parts, st), new_minutes(st))
PushSeconds(st, dp) == Pushing(push_seconds(parts, st, dp), new_seconds(st, dp))
PushAmPm == Pushing(push_am_pm(parts), new_am_pm)
PushBoolean == Pushing(push_boolean(parts), new_boolean)
PushText(t) == Pushing(push_text(parts, t), new_text(t))
PushTextContent == Pushing(push_text_content(parts), new_text_content)

\* the i-th element of the Vec the caller prepares for push_parts
VecPart(i) == IF i % 2 = 1 THEN new_text(<< "a" >>) ELSE new_am_pm
VecOfLen(k) == [i \in 1..k |-> VecPart(i)]

BuildTexts == { << "." >>, << "X", "Y" >> }

InitBuild == InitNew /\ \E k \in 0..MaxVec : partvec = VecOfLen(k)

NextBuild ==
    \/ \E mid \in {0, 3} :
         PushNumberFull(1, TRUE, 0, mid, Some(F64(FALSE, 8000)), Some("-"))
    \/ \E dp \in 0..MaxDec : PushNumber(dp, FALSE)
    \/ PushNumberFix(MaxDec, TRUE)
    \/ PushFillCharacter("*")
    \/ PushScientificNumber(2, FALSE, Some(2), None)
    \/ PushFraction(0, 1, 0, 1, FALSE, Some(9))
    \/ PushCurrencySymbol(Locale_new(L_en, None, Some(R_US)), << "$" >>)
    \/ \E st \in FormatNumberStyle : PushDay(st, "Default")
    \/ \E tx \in FormatTextual, pf \in FormatMonth : PushMonth("Long", tx, pf, "Default")
    \/ \E cal \in {"Default", "Gregorian"} : PushYear("Long", cal)
    \/ \E cal \in {"Default", "Gengou"} : PushEra("Short", cal)
    \/ \E cal \in {"Default", "Roc"} : PushDayOfWeek("Long", cal)
    \/ \E cal \in {"Default", "Hanja"} : PushWeekOfYear(cal)
    \/ \E cal \in {"Default", "Hijri"} : PushQuarter("Long", cal)
    \/ \E st \in FormatNumberStyle : PushHours(st)
    \/ PushMinutes("Long")
    \/ PushSeconds("Long", 0)
    \/ PushAmPm
    \/ PushBoolean
    \/ \E t \in BuildTexts : PushText(t)
    \/ PushTextContent
    \/ PushPart(FormatPart_new("Text"))
    \/ PushParts

SpecBuild == InitBuild /\ [][NextBuild]_vars

----------------------------------------------------------------------------
(* SpecRender: a format made by new(), built from parts of all nineteen     *)
(* types and rendered through all five entry points.                        *)

\* a raw part: FormatPart::new and one set_attr
RawPart(ftype, key, value) == set_attr(FormatPart_new(ftype), key, value)

RenderParts ==
    { new_number(2, FALSE, 0, 1, None, None),
      new_fill_character("*"),
      new_scientific_number(2, FALSE, None, None),
      new_fraction(0, 1, 0, 1, FALSE, None),
      new_currency_symbol(Locale_new(L_en, None, Some(R_US)), << "$" >>),
      new_day("Long", "Default"),
      new_month("Long", "Numeric", "Nominativ", "Default"),
      new_year("Long", "Default"),
      new_era("Long", "Default"),
      new_day_of_week("Short", "Default"),
      new_week_of_year("Default"),
      new_quarter("Long", "Default"),
      new_hours("Long"),
      new_minutes("Long"),
      new_seconds("Long", 0),
      new_am_pm,
      new_boolean,
      new_text(<< "X" >>),
      FormatPart_new("Text"),
      new_text_content }

RenderFloats == { F64(FALSE, 10), F64(TRUE, 20004) }
RenderStrs == { << >>, << "a", "b" >> }
RenderDatetimes == { NaiveDateTime(2001, 2, 3, 13, 5, 9),
                     NaiveDateTime(1999, 12, 31, 0, 59, 0) }
RenderDurations == { Duration(5400, 0), Duration(-61, 0) }

InitRender == InitNew /\ partvec = << >>

NextRender ==
    \/ \E p \in RenderParts : PushPart(p)
    \/ \E b \in BOOLEAN : FormatBoolean(b)
    \/ \E f \in RenderFloats : FormatFloat(f)
    \/ \E str \in RenderStrs : FormatStr(str)
    \/ \E d \in RenderDatetimes : FormatDatetime(d)
    \/ \E d \in RenderDurations : FormatTimeDuration(d)
    \/ DropResult

SpecRender == InitRender /\ [][NextRender]_vars

----------------------------------------------------------------------------
(* SpecDateTime: formats of the clock parts, rendered by format_datetime    *)
(* at every hour of a day.                                                  *)

DateTimeParts ==
    { new_hours("Long"), new_hours("Short"), FormatPart_new("Hours"),
      new_am_pm, new_text(<< ":" >>), new_minutes("Long") }

DayHours == 0..23
DateTimes == { NaiveDateTime(2001, 2, 3, h, 5, 9) : h \in DayHours }

NextDateTime ==
    \/ \E p \in DateTimeParts : PushPartLong(p)
    \/ \E d \in DateTimes : FormatDatetime(d)
    \/ DropResult

SpecDateTime == InitRender /\ [][NextDateTime]_vars

----------------------------------------------------------------------------
(* SpecFloat: Number parts with a well-formed, a missing and a malformed    *)
(* number:decimal-places attribute, rendered by format_float.               *)

\* decimal-places values that parse::<usize>() accepts
GoodDecimalPlaces == { << "0" >>, << "2" >>, << "+", "1" >> }
\* decimal-places values that parse::<usize>() rejects
BadDecimalPlaces == { << >>, << "x" >>, << "-", "1" >>, << "1", ".", "5" >> }

FloatParts ==
    { FormatPart_new("Number"), new_text(<< "|" >>) }
    \cup { RawPart("Number", "number:decimal-places", v) :
             v \in GoodDecimalPlaces \cup BadDecimalPlaces }

Floats == { F64(FALSE, 0), F64(FALSE, 12), F64(FALSE, 25), F64(TRUE, 7),
            F64(FALSE, 8001), F64_NAN }

NextFloat ==
    \/ \E p \in FloatParts : PushPartLong(p)
    \/ \E f \in Floats : FormatFloat(f)
    \/ DropResult

SpecFloat == InitRender /\ [][NextFloat]_vars

----------------------------------------------------------------------------
(* SpecDuration: formats of Hours, Minutes, Seconds and Text parts,         *)
(* rendered by format_time_duration.                                        *)

DurationParts ==
    { new_hours("Long"), new_minutes("Long"), new_seconds("Long", 0),
      new_text(<< ":" >>), new_day("Long", "Default") }

DurationSeconds == { 0, 1, 59, 60, 61, 3599, 3600, 5400, 86399, 90000, 360000,
                     -1, -90, -3661 }
Durations == { Duration(sec, n) : sec \in DurationSeconds, n \in {0, 500000000} }

NextDuration ==
    \/ \E p \in DurationParts : PushPartLong(p)
    \/ \E d \in Durations : FormatTimeDuration(d)
    \/ DropResult

SpecDuration == InitRender /\ [][NextDuration]_vars

----------------------------------------------------------------------------
(* SpecOrder: formats of a long day, a "." and a long numeric month in      *)
(* every order, rendered by format_datetime.                                *)

OrderDay == new_day("Long", "Default")
OrderDot == new_text(<< "." >>)
OrderMonth == new_month("Long", "Numeric", "Nominativ", "Default")
OrderParts == { OrderDay, OrderDot, OrderMonth }
OrderDates == { NaiveDateTime(2001, 2, 3, 13, 5, 9), NaiveDateTime(1999, 12, 31, 0, 59, 0),
                NaiveDateTime(2024, 11, 7, 8, 0, 0), NaiveDateTime(2000, 1, 10, 23, 30, 30) }

NextOrder ==
    \/ \E p \in OrderParts : PushPartLong(p)
    \/ \E d \in OrderDates : FormatDatetime(d)
    \/ DropResult

SpecOrder == InitRender /\ [][NextOrder]_vars

----------------------------------------------------------------------------
(* SpecDecimals: Number parts built by push_number with every number of     *)
(* decimal places up to MaxDec, rendered by format_float.                   *)

DecimalFloats == { F64(FALSE, 0), F64(FALSE, 4), F64(FALSE, 12), F64(FALSE, 20),
                   F64(FALSE, 25), F64(TRUE, 7), F64(TRUE, 3), F64(FALSE, 639),
                   F64(FALSE, 8001), F64_NAN, F64_INF(FALSE), F64_INF(TRUE) }

NextDecimals ==
    \/ \E dp \in 0..MaxDec, g \in BOOLEAN : PushNumber(dp, g)
    \/ PushText(<< "|" >>)
    \/ \E f \in DecimalFloats : FormatFloat(f)
    \/ DropResult

SpecDecimals == InitRender /\ [][NextDecimals]_vars

----------------------------------------------------------------------------
(* SpecAccessors: a format made by new() whose typed attributes are set     *)
(* through the setters, or as raw strings by the crate's reader.            *)

AccessorKeys ==
    { "number:country", "number:language", "number:script",
      "number:transliteration-country", "number:transliteration-language",
      "number:transliteration-format", "number:transliteration-style",
      "style:volatile", "number:automatic-order", "number:title" }

\* strings found in a file: empty, one letter, two letters
RawStrings == { << >>, << "x" >>, << "a", "b" >> }
SpecTitles == { << "T", "1" >>, << "x" >> }
SpecChars == { "a", "1" }

\* the format holds at most MaxAttrs attributes after the step
Capped == Cardinality(DOMAIN attr') <= MaxAttrs

NextAccessors ==
    \/ \E c \in SpecRegions : SetCountry(c) /\ Capped
    \/ \E l \in SpecLanguages : SetLanguage(l) /\ Capped
    \/ \E sc \in SpecScripts : SetScript(sc) /\ Capped
    \/ \E c \in SpecRegions : SetTransliterationCountry(c) /\ Capped
    \/ \E l \in SpecLanguages : SetTransliterationLanguage(l) /\ Capped
    \/ \E c \in SpecChars : SetTransliterationFormat(c) /\ Capped
    \/ \E st \in TransliterationStyle : SetTransliterationStyle(st) /\ Capped
    \/ \E b \in BOOLEAN : SetVolatile(b) /\ Capped
    \/ \E b \in BOOLEAN : SetAutomaticOrder(b) /\ Capped
    \/ \E t \in SpecTitles : SetTitle(t) /\ Capped
    \/ \E k \in AccessorKeys, v \in RawStrings : AttrmapMutSetAttr(k, v) /\ Capped

SpecAccessors == InitRender /\ [][NextAccessors]_vars

----------------------------------------------------------------------------
(* SpecIndependence: a format made by new() whose name, value type, origin, *)
(* use, attributes, text style and stylemaps are changed between pushes of  *)
(* parts of several types and renderings through every entry point.         *)

IndepValueTypes == { "Boolean", "Number", "Empty" }
IndepParts == { new_number(2, FALSE, 0, 1, None, None), new_boolean, new_hours("Long"),
                new_text_content }
\* a StyleMap (crate::style::stylemap) is opaque here
IndepStylemap == "stylemap"
IndepFloat == F64(FALSE, 12)
IndepStr == << "a", "b" >>
IndepDatetime == NaiveDateTime(2001, 2, 3, 13, 5, 9)
IndepDuration == Duration(5400, 0)

NextIndependence ==
    \/ \E vt \in IndepValueTypes : SetValueType(vt)
    \/ \E n \in SpecNames : SetName(n)
    \/ SetOrigin("Content")
    \/ SetStyleuse("Automatic")
    \/ SetCountry(R_US)
    \/ TextstyleSetAttr("fo:font-weight", << "b", "o", "l", "d" >>)
    \/ PushStylemap(IndepStylemap)
    \/ \E p \in IndepParts : PushPart(p)
    \/ FormatBoolean(TRUE)
    \/ FormatFloat(IndepFloat)
    \/ FormatStr(IndepStr)
    \/ FormatDatetime(IndepDatetime)
    \/ FormatTimeDuration(IndepDuration)
    \/ DropResult

SpecIndependence == InitRender /\ [][NextIndependence]_vars

----------------------------------------------------------------------------
(* SpecText: formats of two literal texts and the TextContent placeholder,  *)
(* rendered through every entry point.                                      *)

TextA == new_text(<< "<" >>)
TextB == new_text(<< ">", "!" >>)
TextParts == { TextA, new_text_content, TextB }
TextStrs == { << >>, << "a", "b" >>, << "A", " ", "b" >> }

NextText ==
    \/ \E p \in TextParts : PushPartLong(p)
    \/ \E b \in BOOLEAN : FormatBoolean(b)
    \/ FormatFloat(F64(FALSE, 12))
    \/ \E str \in TextStrs : FormatStr(str)
    \/ FormatDatetime(NaiveDateTime(2001, 2, 3, 13, 5, 9))
    \/ FormatTimeDuration(Duration(5400, 0))
    \/ DropResult

SpecText == InitRender /\ [][NextText]_vars

----------------------------------------------------------------------------
(* SpecCurrency: the currency formats made by create_currency_prefix and    *)
(* create_currency_suffix, and formats built by hand from currency symbols, *)
(* texts (with and without content) and a two-place number, rendered by     *)
(* format_float.                                                            *)

CurrencyLocale == Locale_new(L_en, None, Some(R_US))
CurrencySymbols == { << "$" >>, << "E", "U", "R" >> }
CurrencyParts ==
    { new_currency_symbol(CurrencyLocale, << "$" >>), FormatPart_new("CurrencySymbol"),
      new_text(<< " " >>), FormatPart_new("Text"),
      new_number(2, TRUE, 2, 1, None, None) }
CurrencyFloats == { F64(FALSE, 12), F64(TRUE, 7), F64(FALSE, 8001), F64(FALSE, 0) }

NextCurrency ==
    \/ New
    \/ \E n \in SpecNames, sym \in CurrencySymbols : CreateCurrencyPrefix(n, CurrencyLocale, sym)
    \/ \E n \in SpecNames, sym \in CurrencySymbols : CreateCurrencySuffix(n, CurrencyLocale, sym)
    \/ \E p \in CurrencyParts : PushPartLong(p)
    \/ \E f \in CurrencyFloats : FormatFloat(f)
    \/ DropResult

SpecCurrency == InitNone /\ [][NextCurrency]_vars

----------------------------------------------------------------------------
(* SpecStyle: Day, numeric Month, Year, Hours, Minutes and Seconds parts    *)
(* with the style long, short, missing, and two other values, rendered by   *)
(* format_datetime.                                                         *)

StyleFields == { "Day", "Month", "Year", "Hours", "Minutes", "Seconds" }
\* style values that are neither "long" nor "short"
OtherStyles == { << "L", "o", "n", "g" >>, << "m", "e", "d", "i", "u", "m" >> }

\* the part of a field as its constructor builds it
StyledPart(field, style) ==
    CASE field = "Day" -> new_day(style, "Default")
      [] field = "Month" -> new_month(style, "Numeric", "Nominativ", "Default")
      [] field = "Year" -> new_year(style, "Default")
      [] field = "Hours" -> new_hours(style)
      [] field = "Minutes" -> new_minutes(style)
      [] field = "Seconds" -> new_seconds(style, 0)

StyleParts ==
    { StyledPart(fd, st) : fd \in StyleFields, st \in FormatNumberStyle }
    \cup { FormatPart_new(fd) : fd \in StyleFields }
    \cup { RawPart(fd, "number:style", v) : fd \in StyleFields, v \in OtherStyles }

StyleDatetimes == { NaiveDateTime(2001, 2, 3, 4, 5, 9), NaiveDateTime(1999, 12, 31, 23, 59, 58),
                    NaiveDateTime(2000, 10, 1, 0, 0, 0) }

NextStyle ==
    \/ \E p \in StyleParts : PushPart(p)
    \/ \E d \in StyleDatetimes : FormatDatetime(d)
    \/ DropResult

SpecStyle == InitRender /\ [][NextStyle]_vars

----------------------------------------------------------------------------
(* SpecReadyMade: the date-and-time formats made by create_datetime_format  *)
(* and create_loc_datetime_format, rendered by format_datetime.             *)

ReadyNames == { << "f", "1" >>, << "d", "t" >> }
ReadyDatetimes ==
    { NaiveDateTime(y, mo, d, h, 5, 9) :
        y \in { 1999, 2024 }, mo \in { 1, 12 }, d \in { 3, 28 }, h \in { 0, 13 } }

NextReadyMade ==
    \/ New
    \/ \E n \in ReadyNames : CreateDatetimeFormat(n)
    \/ \E n \in ReadyNames, l \in SpecLocales : CreateLocDatetimeFormat(n, l)
    \/ \E d \in ReadyDatetimes : FormatDatetime(d)
    \/ DropResult

SpecReadyMade == InitNone /\ [][NextReadyMade]_vars

----------------------------------------------------------------------------
(* SpecCalendar: a format made by new() that is built up by the seven       *)
(* date-part builders taking a calendar, with every calendar.               *)

CalendarBuilders ==
    { "push_day", "push_month", "push_year", "push_era", "push_day_of_week",
      "push_week_of_year", "push_quarter" }

\* one call of a builder with the calendar cal
PushWithCalendar(builder, cal) ==
    CASE builder = "push_day" -> \E st \in FormatNumberStyle : PushDay(st, cal)
      [] builder = "push_month" -> PushMonth("Long", "Textual", "Nominativ", cal)
      [] builder = "push_year" -> PushYear("Long", cal)
      [] builder = "push_era" -> PushEra("Short", cal)
      [] builder = "push_day_of_week" -> PushDayOfWeek("Long", cal)
      [] builder = "push_week_of_year" -> PushWeekOfYear(cal)
      [] builder = "push_quarter" -> PushQuarter("Short", cal)

NextCalendar ==
    \E builder \in CalendarBuilders, cal \in FormatCalendar : PushWithCalendar(builder, cal)

SpecCalendar == InitRender /\ [][NextCalendar]_vars

----------------------------------------------------------------------------
(* SpecFixed: Number parts built by push_number and by push_number_fix,     *)
(* with and without grouping, rendered by format_float.                     *)

NextFixed ==
    \/ \E dp \in 0..MaxDec, g \in BOOLEAN : PushNumber(dp, g)
    \/ \E dp \in 0..MaxDec, g \in BOOLEAN : PushNumberFix(dp, g)
    \/ \E f \in DecimalFloats : FormatFloat(f)
    \/ DropResult

SpecFixed == InitRender /\ [][NextFixed]_vars

----------------------------------------------------------------------------
(* SpecColor: color_string applied to colours whose channels take the       *)
(* values around the one-digit/two-digit boundaries and the u8 extremes.    *)

Channels == { 0, 9, 10, 12, 15, 16, 33, 46, 128, 255 }
Colors == { Rgb(r, g, b) : r \in Channels, g \in Channels, b \in Channels }

NextColor ==
    \/ \E c \in Colors : ColorString(c)
    \/ DropResult

SpecColor == InitRender /\ [][NextColor]_vars

----------------------------------------------------------------------------
(* SpecMonthNames: Month parts, numeric and textual, and DayOfWeek parts of *)
(* both styles, rendered by format_datetime in every month of a year.       *)

MonthNameParts ==
    { new_month(st, tx, pf, "Default") :
        st \in FormatNumberStyle, tx \in FormatTextual, pf \in FormatMonth }
    \cup { new_day_of_week(st, "Default") : st \in FormatNumberStyle }
    \cup { new_text(<< " " >>) }

MonthNameDatetimes == { NaiveDateTime(2024, mo, 15, 13, 5, 9) : mo \in 1..12 }

NextMonthNames ==
    \/ \E p \in MonthNameParts : PushPart(p)
    \/ \E d \in MonthNameDatetimes : FormatDatetime(d)
    \/ DropResult

SpecMonthNames == InitRender /\ [][NextMonthNames]_vars

----------------------------------------------------------------------------
(* SpecConcat: formats of up to MaxLongParts parts, among them parts every  *)
(* entry point renders, parts only some render, and the AmPm part, rendered *)
(* through every entry point.                                               *)

ConcatParts ==
    { new_boolean, new_number(1, FALSE, 0, 1, None, None), new_text(<< "-" >>),
      new_text_content, new_hours("Long"), new_am_pm, new_seconds("Short", 0) }
ConcatFloats == { F64(FALSE, 12), F64(TRUE, 7) }
ConcatStrs == { << "a", "b" >> }
ConcatDatetimes == { NaiveDateTime(2001, 2, 3, 13, 5, 9), NaiveDateTime(1999, 12, 31, 0, 59, 0) }
ConcatDurations == { Duration(5400, 0), Duration(59, 0) }

NextConcat ==
    \/ \E p \in ConcatParts : PushPartLong(p)
    \/ \E b \in BOOLEAN : FormatBoolean(b)
    \/ \E f \in ConcatFloats : FormatFloat(f)
    \/ \E str \in ConcatStrs : FormatStr(str)
    \/ \E d \in ConcatDatetimes : FormatDatetime(d)
    \/ \E d \in ConcatDurations : FormatTimeDuration(d)
    \/ DropResult

SpecConcat == InitRender /\ [][NextConcat]_vars

----------------------------------------------------------------------------
(* SpecStylemaps: a format made by new() whose stylemaps are added by       *)
(* push_stylemap and through stylemaps_mut, between other changes of the    *)
(* format.                                                                  *)

\* a StyleMap (crate::style::stylemap) is opaque here
Stylemaps == { "stylemap", "stylemap2" }

NextStylemaps ==
    \/ \E sm \in Stylemaps : PushStylemap(sm)
    \/ StylemapsMut
    \/ \E sm \in Stylemaps : StylemapsMutPush(sm)
    \/ SetOrigin("Content")
    \/ PushPart(new_boolean)
    \/ FormatBoolean(TRUE)
    \/ DropResult

SpecStylemaps == InitRender /\ [][NextStylemaps]_vars

----------------------------------------------------------------------------
(* Claims checked under Spec. *)

\* C5: new_named and new_localized called with ValueType::Empty panic and
\* produce no format (every field stays unset); called with any other value
\* type they succeed and value_type() returns the requested type.
C5_EmptyTypeRejected ==
    [][ /\ \A n \in SpecNames, vt \in ValueType :
             NewNamed(n, vt) =>
               IF vt = "Empty"
               THEN status' = "panicked" /\ v_type' = "Unset" /\ parts' = << >>
               ELSE status' = "ok" /\ value_type(v_type') = vt /\ name' = n
        /\ \A n \in SpecNames, l \in SpecLocales, vt \in ValueType :
             NewLocalized(n, l, vt) =>
               IF vt = "Empty"
               THEN status' = "panicked" /\ v_type' = "Unset" /\ parts' = << >>
               ELSE status' = "ok" /\ value_type(v_type') = vt /\ name' = n
      ]_vars

\* a constructor was called with ValueType::Empty and panicked
C5_Witness_Panicked == status = "panicked" /\ v_type = "Unset"

\* C6: value_type() of a constructed format is never ValueType::Empty,
\* whatever setters, pushes and renderings ran on it.
C6_NeverEmpty == status = "ok" => value_type(v_type) # "Empty"

\* a format made by new() (empty name, Text) whose type was then changed by
\* set_value_type, which has parts and has just been rendered
C6_Witness_Retyped ==
    /\ status = "ok"
    /\ name = << >>
    /\ v_type = "Number"
    /\ Len(parts) > 0
    /\ call.op = "format_boolean"

\* C7 (as claimed): set_display_name(n) makes display_name() return Some(n)
\* and leaves country() and the other locale getters unchanged;
\* set_country(c) leaves display_name() unchanged.
C7_DisplayNameIndependent ==
    [][ /\ \A n \in SpecDisplayNames :
             SetDisplayName(n) =>
               /\ display_name(attr') = Some(n)
               /\ country(attr') = country(attr)
               /\ language(attr') = language(attr)
               /\ script(attr') = script(attr)
               /\ transliteration_country(attr') = transliteration_country(attr)
               /\ transliteration_language(attr') = transliteration_language(attr)
               /\ transliteration_format(attr') = transliteration_format(attr)
               /\ transliteration_style(attr') = transliteration_style(attr)
        /\ \A c \in SpecRegions :
             SetCountry(c) => display_name(attr') = display_name(attr)
      ]_vars

----------------------------------------------------------------------------
(* Claims checked under SpecBuild. *)

\* C2: after any sequence of push calls, parts() holds exactly one part per
\* call, in the order of the calls, each as it was built; no push reorders,
\* drops or modifies an earlier part.
C2_PartsAreThePushes ==
    /\ Len(parts_of(parts)) = Len(pushed)
    /\ \A i \in 1..Len(pushed) : parts_of(parts)[i] = pushed[i]

\* two different parts were pushed one after the other
C2_Witness_TwoPushes ==
    /\ Len(parts) = 2
    /\ parts[1].part_type = "Day"
    /\ parts[2].part_type = "Text"
    /\ Len(pushed) = 2

\* C8: push_parts(v) appends all parts of v, in their order, after the parts
\* already present, leaves v empty, and leaves the earlier parts unchanged.
C8_PushPartsAppends ==
    [][ PushParts =>
          /\ Len(parts') = Len(parts) + Len(partvec)
          /\ \A i \in 1..Len(parts) : parts'[i] = parts[i]
          /\ \A j \in 1..Len(partvec) : parts'[Len(parts) + j] = partvec[j]
          /\ partvec' = << >>
      ]_vars

\* push_parts ran with a Vec of MaxVec parts on a format that had MaxParts
\* parts already (only push_parts can make parts that long)
C8_Witness_Appended ==
    /\ Len(parts) = MaxParts + MaxVec
    /\ MaxParts > 0 /\ MaxVec > 1
    /\ partvec = << >>

----------------------------------------------------------------------------
(* Claims checked under the rendering specifications. *)

RECURSIVE Flatten(_)
Flatten(ss) == IF ss = << >> THEN << >> ELSE Head(ss) \o Flatten(Tail(ss))

HasType(ps, t) == \E i \in 1..Len(ps) : ps[i].part_type = t
IsLongStyle(p) == "number:style" \in DOMAIN p.attr /\ p.attr["number:style"] = S_long

\* C1: in format_datetime, when the format has an AmPm part at any position
\* every Hours part renders the hour on the 12-hour clock (1..12: 13 gives 1,
\* 0 and 12 give 12); without an AmPm part it renders the 24-hour value.
C1_HourText(p, h, ampm) ==
    LET v == IF ampm THEN ((h + 11) % 12) + 1 ELSE h
    IN IF IsLongStyle(p) THEN ZeroPad(NatToString(v), 2) ELSE NatToString(v)

C1_MeridiemCoupling ==
    call.op = "format_datetime" =>
      LET d == call.arg
          ampm == HasType(parts, "AmPm")
          seg(p) == IF p.part_type = "Hours"
                    THEN C1_HourText(p, d.hour, ampm)
                    ELSE part_format_datetime(<< >>, p, d, ampm)
      IN buf = Flatten([i \in 1..Len(parts) |-> seg(parts[i])])

\* [Hours(long), AmPm] rendered at hour 13 gives "01PM"
C1_Witness_Hour13 ==
    /\ call.op = "format_datetime"
    /\ call.arg.hour = 13
    /\ parts = << new_hours("Long"), new_am_pm >>
    /\ buf = << "0", "1", "P", "M" >>

DecimalPlacesKey == "number:decimal-places"
HasDecimalPlaces(p) == DecimalPlacesKey \in DOMAIN p.attr
BadDecimalPlacesPart(p) ==
    p.part_type = "Number" /\ HasDecimalPlaces(p) /\ ParseUsize(p.attr[DecimalPlacesKey]) = None
NoDecimalPlacesPart(p) == p.part_type = "Number" /\ ~HasDecimalPlaces(p)
WithZeroDecimalPlaces(p) == set_attr(p, DecimalPlacesKey, << "0" >>)

\* C3 (as claimed): in format_float a Number part whose decimal-places
\* attribute is absent, or present but not parsable as a non-negative
\* integer, renders exactly as if decimal-places were 0.
C3_UnparsableAsZero ==
    call.op = "format_float" =>
      buf = format_float(
              [i \in 1..Len(parts) |->
                 IF NoDecimalPlacesPart(parts[i]) \/ BadDecimalPlacesPart(parts[i])
                 THEN WithZeroDecimalPlaces(parts[i]) ELSE parts[i]],
              call.arg)

\* C3 (amended): a Number part whose decimal-places attribute is absent
\* renders exactly as if decimal-places were 0; one whose attribute is
\* present but not parsable as a non-negative integer contributes nothing.
C3_AbsentAsZero_UnparsableSkipped ==
    call.op = "format_float" =>
      buf = format_float(
              Flatten([i \in 1..Len(parts) |->
                 IF BadDecimalPlacesPart(parts[i]) THEN << >>
                 ELSE IF NoDecimalPlacesPart(parts[i])
                 THEN << WithZeroDecimalPlaces(parts[i]) >>
                 ELSE << parts[i] >>]),
              call.arg)

\* 1.5 rendered by a Number part without the attribute, a text and a Number
\* part with decimal-places "x": "2" (as with 0 places), "|", nothing
C3_Witness_AbsentAndBad ==
    /\ call.op = "format_float"
    /\ call.arg = F64(FALSE, 12)
    /\ parts = << FormatPart_new("Number"), new_text(<< "|" >>),
                  RawPart("Number", DecimalPlacesKey, << "x" >>) >>
    /\ buf = << "2", "|" >>

\* C4: for a non-negative duration of s seconds, Hours emits s div 3600 (not
\* clamped below 24), Minutes (s div 60) mod 60, Seconds s mod 60; 90 minutes
\* give Hours 1 and Minutes 30, 60 minutes give Hours 1 and Minutes 0.
C4_DurationFields ==
    (call.op = "format_time_duration" /\ call.arg.secs >= 0) =>
      LET sec == call.arg.secs
          seg(p) == CASE p.part_type = "Hours" -> NatToString(sec \div 3600)
                      [] p.part_type = "Minutes" -> NatToString((sec \div 60) % 60)
                      [] p.part_type = "Seconds" -> NatToString(sec % 60)
                      [] OTHER -> part_format_time_duration(<< >>, p, call.arg)
          hm == << new_hours("Long"), new_text(<< ":" >>), new_minutes("Long") >>
      IN /\ buf = Flatten([i \in 1..Len(parts) |-> seg(parts[i])])
         /\ (parts = hm /\ sec = 5400) => buf = << "1", ":", "3", "0" >>
         /\ (parts = hm /\ sec = 3600) => buf = << "1", ":", "0" >>

\* 25 hours rendered by [Hours, ":", Minutes] give "25:0"
C4_Witness_25Hours ==
    /\ call.op = "format_time_duration"
    /\ call.arg = Duration(90000, 0)
    /\ parts = << new_hours("Long"), new_text(<< ":" >>), new_minutes("Long") >>
    /\ buf = << "2", "5", ":", "0" >>

\* the part types that are meaningful for each rendering entry point
Meaningful(op) ==
    CASE op = "format_boolean" -> { "Boolean", "Text" }
      [] op = "format_float" -> { "Number", "ScientificNumber", "CurrencySymbol", "Text" }
      [] op = "format_str" -> { "TextContent", "Text" }
      [] op = "format_datetime" ->
           { "Day", "Month", "Year", "DayOfWeek", "WeekOfYear", "Hours", "Minutes",
             "Seconds", "AmPm", "Text" }
      [] op = "format_time_duration" -> { "Hours", "Minutes", "Seconds", "Text" }

\* the rendering of ps through entry point op
RenderBy(op, ps, arg) ==
    CASE op = "format_boolean" -> format_boolean(ps, arg)
      [] op = "format_float" -> format_float(ps, arg)
      [] op = "format_str" -> format_str(ps, arg)
      [] op = "format_datetime" -> format_datetime(ps, arg)
      [] op = "format_time_duration" -> format_time_duration(ps, arg)

OnlyMeaningful(op, ps) == SelectSeq(ps, LAMBDA p : p.part_type \in Meaningful(op))

C10_NoPartsEmptyString ==
    (call.op # "none" /\ parts = << >>) => buf = << >>

\* the empty format was rendered through format_time_duration
C10_Witness_EmptyRendered ==
    /\ call.op = "format_time_duration"
    /\ parts = << >>
    /\ buf = << >>

\* C11: a format whose only part is a Text part with content X renders to
\* exactly X through each of the five entry points, whatever the value.
C11_OnlyTextRendersText ==
    (/\ call.op # "none"
     /\ Len(parts) = 1
     /\ parts[1].part_type = "Text"
     /\ IsSome(parts[1].content)) => buf = Unwrap(parts[1].content)

\* the format [Text("X")] rendered a duration to "X"
C11_Witness_TextOnly ==
    /\ call.op = "format_time_duration"
    /\ parts = << new_text(<< "X" >>) >>
    /\ buf = << "X" >>

\* C12: rendering is order-sensitive: [Day(long), Text("."), Month(long,
\* numeric)] renders a date as the zero-padded day, ".", the zero-padded
\* month; the parts in reverse order render the same segments in reverse
\* order.
C12_OrderSensitive ==
    call.op = "format_datetime" =>
      LET d == call.arg
          DD == IF d.day < 10 THEN << "0" >> \o NatToString(d.day) ELSE NatToString(d.day)
          MM == IF d.month < 10 THEN << "0" >> \o NatToString(d.month)
                ELSE NatToString(d.month)
          fwd == << OrderDay, OrderDot, OrderMonth >>
          seg == [i \in 1..Len(parts) |-> part_format_datetime(<< >>, parts[i], d, FALSE)]
      IN /\ parts = fwd => buf = DD \o << "." >> \o MM
         /\ parts = Reverse(fwd) => buf = MM \o << "." >> \o DD
         /\ buf = Flatten(seg)
         /\ format_datetime(Reverse(parts), d) = Flatten(Reverse(seg))

\* [Month, ".", Day] rendered 2001-02-03 to "02.03"
C12_Witness_Reversed ==
    /\ call.op = "format_datetime"
    /\ call.arg = NaiveDateTime(2001, 2, 3, 13, 5, 9)
    /\ parts = << OrderMonth, OrderDot, OrderDay >>
    /\ buf = << "0", "2", ".", "0", "3" >>

\* the format is a single Number part built with dp decimal places
OnlyNumberOf(dp) ==
    /\ Len(parts) = 1
    /\ \E g \in BOOLEAN : parts[1] = new_number(dp, g, 0, 1, None, None)

\* s without its leading minus sign
Unsigned(s) == IF Len(s) > 0 /\ s[1] = "-" THEN Tail(s) ELSE s

\* s is an optional minus sign, at least one digit and, when dp > 0, a
\* decimal point followed by exactly dp digits (no point when dp = 0)
HasDecimals(s, dp) ==
    LET u == Unsigned(s)
        n == Len(u)
    IN IF dp = 0
       THEN n >= 1 /\ \A i \in 1..n : u[i] \in DigitSet
       ELSE /\ n >= dp + 2
            /\ u[n - dp] = "."
            /\ \A i \in 1..n : i # n - dp => u[i] \in DigitSet

\* the number s denotes, in units of 10^-dp
ScaledValue(s, dp) == DigitsValue(SelectSeq(Unsigned(s), LAMBDA c : c # "."))

\* C13 (as claimed): for every decimal_places d up to the bound, a format
\* whose only part is a Number part built with d renders every float to a
\* string with exactly d digits after the decimal point (no point when d is
\* 0).
C13_ExactlyDDigits ==
    \A dp \in 0..MaxDec :
      (call.op = "format_float" /\ OnlyNumberOf(dp)) => HasDecimals(buf, dp)

\* C13 (amended): the same for every finite float, the value being rounded
\* to d fractional digits; NaN renders as "NaN" and the infinities as "inf"
\* and "-inf", without a decimal point, whatever d is.
C13_ExactlyDDigitsWhenFinite ==
    \A dp \in 0..MaxDec :
      (call.op = "format_float" /\ OnlyNumberOf(dp)) =>
        LET f == call.arg
            err == 8 * ScaledValue(buf, dp) - f.m * (10 ^ dp)
        IN CASE f.cls = "finite" ->
                  /\ HasDecimals(buf, dp)
                  /\ (buf[1] = "-") = f.neg
                  /\ err >= -4 /\ err <= 4
             [] f.cls = "nan" -> buf = << "N", "a", "N" >>
             [] f.cls = "inf" ->
                  buf = (IF f.neg THEN << "-" >> ELSE << >>) \o << "i", "n", "f" >>

\* 79.875 rendered with one decimal place is "79.9"
C13_Witness_OnePlace ==
    /\ call.op = "format_float"
    /\ call.arg = F64(FALSE, 639)
    /\ OnlyNumberOf(1)
    /\ buf = << "7", "9", ".", "9" >>

\* C14: new_localized with a locale of language X, region Y and no script
\* yields language() = Some(X), country() = Some(Y), script() = None; a
\* locale without region yields country() = None, one with script S yields
\* script() = Some(S).
C14_LocaleDecomposition ==
    [][ \A n \in SpecNames, l \in SpecLocales, vt \in ValueType \ { "Empty" } :
          NewLocalized(n, l, vt) =>
            /\ language(attr') = Some(l.language)
            /\ country(attr') = (IF IsSome(l.region) THEN Some(Unwrap(l.region)) ELSE None)
            /\ script(attr') = (IF IsSome(l.script) THEN Some(Unwrap(l.script)) ELSE None)
      ]_vars

\* the format made by new_localized("f1", en-US, Currency)
C14_Witness_EnUs ==
    /\ status = "ok"
    /\ name = << "f", "1" >>
    /\ v_type = "Currency"
    /\ language(attr) = Some(L_en)
    /\ country(attr) = Some(R_US)
    /\ script(attr) = None
    /\ parts = << >>

----------------------------------------------------------------------------
(* Claims checked under SpecAccessors. *)

AccessorKinds ==
    { "country", "language", "script", "transliteration_country",
      "transliteration_language", "transliteration_format", "transliteration_style",
      "volatile", "automatic_order", "title" }

\* the attribute an accessor pair works on
AccessorKey(kind) ==
    CASE kind = "country" -> "number:country"
      [] kind = "language" -> "number:language"
      [] kind = "script" -> "number:script"
      [] kind = "transliteration_country" -> "number:transliteration-country"
      [] kind = "transliteration_language" -> "number:transliteration-language"
      [] kind = "transliteration_format" -> "number:transliteration-format"
      [] kind = "transliteration_style" -> "number:transliteration-style"
      [] kind = "volatile" -> "style:volatile"
      [] kind = "automatic_order" -> "number:automatic-order"
      [] kind = "title" -> "number:title"

\* what the getter of a pair returns for the attribute map a
Getter(kind, a) ==
    CASE kind = "country" -> country(a)
      [] kind = "language" -> language(a)
      [] kind = "script" -> script(a)
      [] kind = "transliteration_country" -> transliteration_country(a)
      [] kind = "transliteration_language" -> transliteration_language(a)
      [] kind = "transliteration_format" -> transliteration_format(a)
      [] kind = "transliteration_style" -> transliteration_style(a)
      [] kind = "volatile" -> volatile(a)
      [] kind = "automatic_order" -> automatic_order(a)
      [] kind = "title" -> title(a)

AllLetters(s) == \A i \in 1..Len(s) : IsAlpha(s[i])

\* the string s is a well-formed text of the pair's typed value
ParsesAs(kind, s) ==
    CASE kind \in { "country", "transliteration_country" } ->
           \/ Len(s) = 2 /\ AllLetters(s)
           \/ Len(s) = 3 /\ \A i \in 1..3 : s[i] \in DigitSet
      [] kind \in { "language", "transliteration_language" } ->
           Len(s) \in { 2, 3, 5, 6, 7, 8 } /\ AllLetters(s)
      [] kind = "script" -> Len(s) = 4 /\ AllLetters(s)
      [] kind = "transliteration_format" -> Len(s) = 1
      [] kind = "transliteration_style" ->
           s \in { << "s", "h", "o", "r", "t" >>, << "m", "e", "d", "i", "u", "m" >>,
                   << "l", "o", "n", "g" >> }
      [] kind \in { "volatile", "automatic_order" } ->
           s \in { << "t", "r", "u", "e" >>, << "f", "a", "l", "s", "e" >> }
      [] kind = "title" -> TRUE

\* the step is a call of the pair's setter
SetterStep(kind) ==
    CASE kind = "country" -> \E c \in SpecRegions : SetCountry(c)
      [] kind = "language" -> \E l \in SpecLanguages : SetLanguage(l)
      [] kind = "script" -> \E sc \in SpecScripts : SetScript(sc)
      [] kind = "transliteration_country" ->
           \E c \in SpecRegions : SetTransliterationCountry(c)
      [] kind = "transliteration_language" ->
           \E l \in SpecLanguages : SetTransliterationLanguage(l)
      [] kind = "transliteration_format" ->
           \E c \in SpecChars : SetTransliterationFormat(c)
      [] kind = "transliteration_style" ->
           \E st \in TransliterationStyle : SetTransliterationStyle(st)
      [] kind = "volatile" -> \E b \in BOOLEAN : SetVolatile(b)
      [] kind = "automatic_order" -> \E b \in BOOLEAN : SetAutomaticOrder(b)
      [] kind = "title" -> \E t \in SpecTitles : SetTitle(t)

\* after a setter call the getter returns the value just set, whatever was
\* set before, and the getters of the other pairs return what they did
LastWriteWins ==
    /\ \A c \in SpecRegions : SetCountry(c) => country(attr') = Some(c)
    /\ \A l \in SpecLanguages : SetLanguage(l) => language(attr') = Some(l)
    /\ \A sc \in SpecScripts : SetScript(sc) => script(attr') = Some(sc)
    /\ \A c \in SpecRegions :
         SetTransliterationCountry(c) => transliteration_country(attr') = Some(c)
    /\ \A l \in SpecLanguages :
         SetTransliterationLanguage(l) => transliteration_language(attr') = Some(l)
    /\ \A c \in SpecChars :
         SetTransliterationFormat(c) => transliteration_format(attr') = Some(c)
    /\ \A st \in TransliterationStyle :
         SetTransliterationStyle(st) => transliteration_style(attr') = Some(st)
    /\ \A b \in BOOLEAN : SetVolatile(b) => volatile(attr') = Some(b)
    /\ \A b \in BOOLEAN : SetAutomaticOrder(b) => automatic_order(attr') = Some(b)
    /\ \A t \in SpecTitles : SetTitle(t) => title(attr') = Some(t)
    /\ \A k1 \in AccessorKinds :
         SetterStep(k1) =>
           \A k2 \in AccessorKinds \ { k1 } : Getter(k2, attr') = Getter(k2, attr)

\* a getter returns None while its attribute is absent
AbsentIsNone(kind) ==
    AccessorKey(kind) \notin DOMAIN attr => Getter(kind, attr) = None

\* a getter returns None when the stored string is not a text of its type
UnparsableIsNone(kind) ==
    (/\ AccessorKey(kind) \in DOMAIN attr
     /\ ~ParsesAs(kind, attr[AccessorKey(kind)])) => Getter(kind, attr) = None

\* transliteration_format returns the first character of the stored string
FirstCharOrNone ==
    LET k == AccessorKey("transliteration_format")
    IN k \in DOMAIN attr =>
         transliteration_format(attr) =
           (IF attr[k] = << >> THEN None ELSE Some(attr[k][1]))

\* C15 (as claimed): for each typed accessor pair the getter returns None
\* while the property was never set, Some(v) for the most recently set v
\* after any calls of its setter, and None when the stored string does not
\* parse as the typed value.
C15_AccessorPairs ==
    /\ [](\A kind \in AccessorKinds : AbsentIsNone(kind) /\ UnparsableIsNone(kind))
    /\ [][LastWriteWins]_vars

\* C15 (amended): as claimed for every pair but transliteration format,
\* whose getter returns the first character of the stored string whatever
\* follows it, and None only when the stored string is empty.
C15_AccessorPairs_FirstChar ==
    /\ [](/\ \A kind \in AccessorKinds : AbsentIsNone(kind)
          /\ \A kind \in AccessorKinds \ { "transliteration_format" } :
               UnparsableIsNone(kind)
          /\ FirstCharOrNone)
    /\ [][LastWriteWins]_vars

\* automatic-order was set to true, and the reader stored "ab" as the
\* transliteration format: the getter returns 'a'
C15_Witness_SetAndRaw ==
    /\ automatic_order(attr) = Some(TRUE)
    /\ "number:transliteration-format" \in DOMAIN attr
    /\ attr["number:transliteration-format"] = << "a", "b" >>
    /\ transliteration_format(attr) = Some("a")

----------------------------------------------------------------------------
(* Claims checked under SpecIndependence. *)

\* what one part contributes for a value, on an empty buffer
PartSegment(op, p, arg, h12) ==
    CASE op = "format_boolean" -> part_format_boolean(<< >>, p, arg)
      [] op = "format_float" -> part_format_float(<< >>, p, arg)
      [] op = "format_str" -> part_format_str(<< >>, p, arg)
      [] op = "format_datetime" -> part_format_datetime(<< >>, p, arg, h12)
      [] op = "format_time_duration" -> part_format_time_duration(<< >>, p, arg)

\* C16: the output of every rendering entry point is a function of the parts
\* and the value only: whatever the name, value type, origin, use,
\* attributes, text style and stylemaps of the format are, the result is the
\* concatenation of what each part contributes for the value; and a part of
\* any type can be pushed whatever the value type is.
C16_PartsAndValueOnly ==
    /\ [](call.op # "none" =>
            buf = Flatten([i \in 1..Len(parts) |->
                    PartSegment(call.op, parts[i], call.arg, HasType(parts, "AmPm"))]))
    /\ []((Quiet /\ Len(parts) < MaxParts) =>
            \A p \in IndepParts : ENABLED PushPart(p))

\* a format retyped to Boolean, renamed and restyled, holding a Number and
\* an Hours part, rendered 1.5 to "1.50"
C16_Witness_BooleanTypedNumber ==
    /\ v_type = "Boolean"
    /\ name = << "f", "1" >>
    /\ origin = "Content"
    /\ IsSome(stylemaps)
    /\ parts = << new_number(2, FALSE, 0, 1, None, None), new_hours("Long") >>
    /\ call = [op |-> "format_float", arg |-> IndepFloat]
    /\ buf = << "1", ".", "5", "0" >>

----------------------------------------------------------------------------
(* Claims checked under SpecText. *)

\* C17: in format_str a TextContent part emits the input string unchanged:
\* [Text(a), TextContent, Text(b)] renders s to a, s, b and [TextContent]
\* renders s to s; in the boolean, float, date-time and duration entry
\* points TextContent emits nothing.
C17_TextContentIsTheInput ==
    call.op # "none" =>
      LET seg(p) == IF p.part_type = "TextContent"
                    THEN (IF call.op = "format_str" THEN call.arg ELSE << >>)
                    ELSE Unwrap(p.content)
      IN /\ buf = Flatten([i \in 1..Len(parts) |-> seg(parts[i])])
         /\ (call.op = "format_str" /\ parts = << TextA, new_text_content, TextB >>) =>
              buf = << "<" >> \o call.arg \o << ">", "!" >>
         /\ (call.op = "format_str" /\ parts = << new_text_content >>) => buf = call.arg

\* [Text("<"), TextContent, Text(">!")] rendered "A b" to "<A b>!"
C17_Witness_Wrapped ==
    /\ call = [op |-> "format_str", arg |-> << "A", " ", "b" >>]
    /\ parts = << TextA, new_text_content, TextB >>
    /\ buf = << "<", "A", " ", "b", ">", "!" >>

----------------------------------------------------------------------------
(* Further claims checked under Spec. *)

\* C18: in format_boolean each Boolean part emits exactly "true" for true
\* and "false" for false, whatever the locale attributes of the format are.
C18_BooleanTokens ==
    call.op = "format_boolean" =>
      LET token == IF call.arg THEN << "t", "r", "u", "e" >>
                   ELSE << "f", "a", "l", "s", "e" >>
          seg(p) == IF p.part_type = "Boolean" THEN token ELSE Unwrap(p.content)
      IN buf = Flatten([i \in 1..Len(parts) |-> seg(parts[i])])

\* a German format [Text("X"), Boolean] rendered false to "Xfalse"
C18_Witness_GermanFalse ==
    /\ language(attr) = Some(L_de)
    /\ call = [op |-> "format_boolean", arg |-> FALSE]
    /\ parts = << new_text(<< "X" >>), new_boolean >>
    /\ buf = << "X", "f", "a", "l", "s", "e" >>

----------------------------------------------------------------------------
(* Claims checked under SpecCurrency. *)

\* C19: in format_float a CurrencySymbol part and a Text part each emit
\* their stored content verbatim, and nothing when they have no content; the
\* currency-prefix format renders the symbol, a space and the number with
\* two decimals, the suffix format the same segments in the opposite order.
C19_CurrencyAndTextVerbatim ==
    call.op = "format_float" =>
      LET seg(p) == IF p.part_type \in { "CurrencySymbol", "Text" }
                    THEN (IF p.content = << >> THEN << >> ELSE p.content[1])
                    ELSE part_format_float(<< >>, p, call.arg)
          two == FormatFixed(2, call.arg)
      IN /\ buf = Flatten([i \in 1..Len(parts) |-> seg(parts[i])])
         /\ \A n \in SpecNames, sym \in CurrencySymbols :
              /\ parts = Unwrap(create_currency_prefix(n, CurrencyLocale, sym)).parts
                   => buf = sym \o << " " >> \o two
              /\ parts = Unwrap(create_currency_suffix(n, CurrencyLocale, sym)).parts
                   => buf = two \o << " " >> \o sym

\* the format of create_currency_suffix("f1", en-US, "EUR") rendered 1.5 to
\* "1.50 EUR"
C19_Witness_Suffix ==
    /\ v_type = "Currency"
    /\ Len(parts) = 3
    /\ parts[1].part_type = "Number"
    /\ parts[3].part_type = "CurrencySymbol"
    /\ call = [op |-> "format_float", arg |-> F64(FALSE, 12)]
    /\ buf = << "1", ".", "5", "0", " ", "E", "U", "R" >>

----------------------------------------------------------------------------
(* Claims checked under SpecStyle. *)

\* the date-time field a part shows
FieldValue(p, d) ==
    CASE p.part_type = "Day" -> d.day
      [] p.part_type = "Month" -> d.month
      [] p.part_type = "Year" -> d.year
      [] p.part_type = "Hours" -> d.hour
      [] p.part_type = "Minutes" -> d.minute
      [] p.part_type = "Seconds" -> d.second

\* C20: in format_datetime a part with the style "long" renders Day, numeric
\* Month, Hours, Minutes and Seconds zero-padded to two digits and Year as
\* the four-digit year; with the style "short", missing, or any other value
\* the fields render without padding and Year as the two-digit year (year
\* mod 100).
C20_StylePadding ==
    call.op = "format_datetime" =>
      LET d == call.arg
          seg(p) ==
            LET v == FieldValue(p, d)
            IN IF IsLongStyle(p)
               THEN (IF p.part_type = "Year" THEN ZeroPad(NatToString(v), 4)
                     ELSE ZeroPad(NatToString(v), 2))
               ELSE (IF p.part_type = "Year" THEN ZeroPad(NatToString(v % 100), 2)
                     ELSE NatToString(v))
      IN buf = Flatten([i \in 1..Len(parts) |-> seg(parts[i])])

\* [Year(short), Day with style "Long"] rendered 2001-02-03 to "01" and "3"
C20_Witness_ShortYearOtherDay ==
    /\ call = [op |-> "format_datetime", arg |-> NaiveDateTime(2001, 2, 3, 4, 5, 9)]
    /\ parts = << new_year("Short", "Default"),
                  RawPart("Day", "number:style", << "L", "o", "n", "g" >>) >>
    /\ buf = << "0", "1", "3" >>

----------------------------------------------------------------------------
(* Claims checked under SpecReadyMade. *)

\* the part types and literal texts of a sequence of parts, in order
Shape(ps) == [i \in 1..Len(ps) |-> << ps[i].part_type, ps[i].content >>]

\* Y-M-D H:M:S
ShapeYMDHMS ==
    << << "Year", None >>, << "Text", Some(<< "-" >>) >>, << "Month", None >>,
       << "Text", Some(<< "-" >>) >>, << "Day", None >>, << "Text", Some(<< " " >>) >>,
       << "Hours", None >>, << "Text", Some(<< ":" >>) >>, << "Minutes", None >>,
       << "Text", Some(<< ":" >>) >>, << "Seconds", None >> >>

\* C21 (as claimed): create_loc_datetime_format(name, locale) builds the parts
\* Year, "-", Month, "-", Day, " ", Hours, ":", Minutes, ":", Seconds, the
\* same part types and literal texts as create_datetime_format(name) builds.
C21_LocDatetimeIsYMD ==
    [][ \A n \in ReadyNames, l \in SpecLocales :
          CreateLocDatetimeFormat(n, l) =>
            /\ Shape(parts') = ShapeYMDHMS
            /\ Shape(parts') = Shape(Unwrap(create_datetime_format(n)).parts)
      ]_vars

----------------------------------------------------------------------------
(* Claims checked under SpecCalendar. *)

\* the part type each builder makes
BuiltType(builder) ==
    CASE builder = "push_day" -> "Day"
      [] builder = "push_month" -> "Month"
      [] builder = "push_year" -> "Year"
      [] builder = "push_era" -> "Era"
      [] builder = "push_day_of_week" -> "DayOfWeek"
      [] builder = "push_week_of_year" -> "WeekOfYear"
      [] builder = "push_quarter" -> "Quarter"

CalendarKey == "number:calendar"

\* C22: each of push_day, push_month, push_year, push_era, push_day_of_week,
\* push_week_of_year and push_quarter appends a part of its type that has no
\* number:calendar attribute when called with FormatCalendar::Default, and
\* with any other calendar has number:calendar set to the name of that
\* calendar, which is never the empty string.
C22_CalendarAttribute ==
    [][ \A builder \in CalendarBuilders, cal \in FormatCalendar :
          PushWithCalendar(builder, cal) =>
            LET p == parts'[Len(parts')]
            IN /\ Len(parts') = Len(parts) + 1
               /\ p.part_type = BuiltType(builder)
               /\ cal = "Default" => CalendarKey \notin DOMAIN p.attr
               /\ cal # "Default" =>
                    /\ CalendarKey \in DOMAIN p.attr
                    /\ p.attr[CalendarKey] = FormatCalendar_fmt(cal)
                    /\ p.attr[CalendarKey] # << >>
      ]_vars

\* a week of the default calendar was pushed, then a day of the ROC calendar
C22_Witness_DefaultThenRoc ==
    /\ Len(parts) = 2
    /\ parts[1] = new_week_of_year("Default")
    /\ CalendarKey \notin DOMAIN parts[1].attr
    /\ parts[2].part_type = "Day"
    /\ CalendarKey \in DOMAIN parts[2].attr
    /\ parts[2].attr[CalendarKey] = << "R", "O", "C" >>

----------------------------------------------------------------------------
(* Claims checked under SpecFixed. *)

MinDecimalPlacesKey == "number:min-decimal-places"

\* the Number part push_number builds where push_number_fix built p
Plain(p) == set_attr(p, MinDecimalPlacesKey, NatToString(0))
PlainParts(ps) == [i \in 1..Len(ps) |-> Plain(ps[i])]

\* C23: push_number_fix(d, g) appends one Number part whose
\* min-decimal-places equals its decimal-places d; push_number(d, g) appends
\* one Number part with decimal-places d and min-decimal-places 0; and
\* format_float renders a format built with push_number_fix exactly as it
\* renders the format built by the same calls of push_number.
C23_FixedVersusPlain ==
    /\ [](call.op = "format_float" =>
            buf = format_float(PlainParts(parts), call.arg))
    /\ [][ \A dp \in 0..MaxDec, g \in BOOLEAN :
             /\ PushNumberFix(dp, g) =>
                  LET p == parts'[Len(parts')]
                  IN /\ Len(parts') = Len(parts) + 1
                     /\ SubSeq(parts', 1, Len(parts)) = parts
                     /\ p.part_type = "Number"
                     /\ p.attr[DecimalPlacesKey] = NatToString(dp)
                     /\ p.attr[MinDecimalPlacesKey] = p.attr[DecimalPlacesKey]
                     /\ push_part(parts, Plain(p)) = push_number(parts, dp, g)
             /\ PushNumber(dp, g) =>
                  LET p == parts'[Len(parts')]
                  IN /\ Len(parts') = Len(parts) + 1
                     /\ SubSeq(parts', 1, Len(parts)) = parts
                     /\ p.part_type = "Number"
                     /\ p.attr[DecimalPlacesKey] = NatToString(dp)
                     /\ p.attr[MinDecimalPlacesKey] = NatToString(0)
         ]_vars

\* a fixed and a plain Number part of two places rendered 1.5
C23_Witness_FixedAndPlain ==
    /\ Len(parts) = 2
    /\ parts[1].attr[MinDecimalPlacesKey] = << "2" >>
    /\ parts[2].attr[MinDecimalPlacesKey] = << "0" >>
    /\ parts[2].attr[DecimalPlacesKey] = << "2" >>
    /\ call.op = "format_float"
    /\ call.arg = F64(FALSE, 12)
    /\ buf = << "1", ".", "5", "0", "1", ".", "5", "0" >>

----------------------------------------------------------------------------
(* Claims checked under SpecColor. *)

\* the value of a lowercase hexadecimal digit, -1 for any other character
HexVal(c) ==
    IF \E i \in 1..16 : HexDigits[i] = c
    THEN (CHOOSE i \in 1..16 : HexDigits[i] = c) - 1
    ELSE -1

\* the channel two hexadecimal digits stand for
HexPair(s, i) == 16 * HexVal(s[i]) + HexVal(s[i + 1])

\* C24: color_string(Rgb(r, g, b)) is "#" followed by exactly six lowercase
\* hexadecimal digits, two zero-padded digits per channel in the order r, g,
\* b; the channels can be read back from the string, so the mapping is
\* injective.
C24_ColorString ==
    call.op = "color_string" =>
      /\ Len(buf) = 7
      /\ buf[1] = "#"
      /\ \A i \in 2..7 : HexVal(buf[i]) >= 0
      /\ Rgb(HexPair(buf, 2), HexPair(buf, 4), HexPair(buf, 6)) = call.arg
      /\ call.arg = Rgb(12, 33, 46) => buf = << "#", "0", "c", "2", "1", "2", "e" >>
      /\ call.arg = Rgb(0, 0, 128) => buf = << "#", "0", "0", "0", "0", "8", "0" >>

\* the colour of test_attr1 was encoded
C24_Witness_0c212e ==
    /\ call.op = "color_string"
    /\ call.arg = Rgb(12, 33, 46)
    /\ buf = << "#", "0", "c", "2", "1", "2", "e" >>

----------------------------------------------------------------------------
(* Claims checked under SpecMonthNames. *)

IsTextualMonth(p) ==
    /\ p.part_type = "Month"
    /\ "number:textual" \in DOMAIN p.attr
    /\ p.attr["number:textual"] = S_true

\* the name a textual Month or a DayOfWeek part stands for: the full name
\* with the style long, the abbreviated name otherwise
NameOf(p, d) ==
    IF p.part_type = "Month"
    THEN IF IsLongStyle(p) THEN LongMonthNames[d.month] ELSE ShortMonthNames[d.month]
    ELSE IF IsLongStyle(p) THEN LongWeekdayNames[NumDaysFromMonday(d) + 1]
         ELSE ShortWeekdayNames[NumDaysFromMonday(d) + 1]

\* C25 (as claimed): format_datetime renders a textual Month part with the
\* style long as the full month name and with the style short as the
\* abbreviated one, as it renders a DayOfWeek part with the style long as the
\* full weekday name and with the style short as the abbreviated one.
C25_TextualMonthLongIsFull ==
    ( /\ call.op = "format_datetime"
      /\ \A i \in 1..Len(parts) :
           IsTextualMonth(parts[i]) \/ parts[i].part_type = "DayOfWeek" )
    => buf = Flatten([i \in 1..Len(parts) |-> NameOf(parts[i], call.arg)])

----------------------------------------------------------------------------
(* Claims checked under SpecBuild: the Month and Number builders. *)

PossessiveFormKey == "number:possessive-form"

IsPossessive(p) ==
    PossessiveFormKey \in DOMAIN p.attr /\ p.attr[PossessiveFormKey] = S_true

\* C26 (as claimed): push_month encodes the possessive-form flag as given:
\* with FormatMonth::Possessiv the appended Month part has
\* number:possessive-form = "true", with FormatMonth::Nominativ it has not.
C26_PossessiveAsGiven ==
    [][ \A tx \in FormatTextual, pf \in FormatMonth :
          PushMonth("Long", tx, pf, "Default") =>
            LET p == parts'[Len(parts')]
            IN /\ p.part_type = "Month"
               /\ IsPossessive(p) <=> pf = "Possessiv"
      ]_vars

\* the key new_fraction and new_scientific_number write their minimum
\* number of integer digits under
MinIntegerDigitsKey == "number:min-integer-digits"

\* C27 (as claimed): push_number_full(.., mininteger_digits = m, ..) appends
\* a Number part whose number:min-integer-digits attribute is m, the key
\* new_fraction and new_scientific_number use for their minimum integer
\* digits.
C27_MinIntegerDigitsStored ==
    [][ \A m \in {0, 3} :
          PushNumberFull(1, TRUE, 0, m, Some(F64(FALSE, 8000)), Some("-")) =>
            LET p == parts'[Len(parts')]
            IN /\ p.part_type = "Number"
               /\ MinIntegerDigitsKey \in DOMAIN new_fraction(0, 1, m, 1, FALSE, None).attr
               /\ MinIntegerDigitsKey \in DOMAIN new_scientific_number(2, FALSE, None, Some(m)).attr
               /\ MinIntegerDigitsKey \in DOMAIN p.attr
               /\ p.attr[MinIntegerDigitsKey] = NatToString(m)
      ]_vars

----------------------------------------------------------------------------
(* Claims checked under SpecDuration: negative durations. *)

\* the decimal texts of the integers 0..59
RemainderTexts == { NatToString(k) : k \in 0..59 }

\* C28 (as claimed): for every duration, negative ones included, a format of
\* one Minutes part or of one Seconds part renders through
\* format_time_duration as an integer in 0..59, never as a negative number.
C28_RemainderNeverNegative ==
    ( /\ call.op = "format_time_duration"
      /\ Len(parts) = 1
      /\ parts[1].part_type \in { "Minutes", "Seconds" } )
    => buf \in RemainderTexts

----------------------------------------------------------------------------
(* Claims checked under SpecConcat. *)

\* P, Q and P followed by Q agree on whether an AmPm part is present
AgreeOnAmPm(P, Q) ==
    /\ any_am_pm(P) <=> any_am_pm(Q)
    /\ any_am_pm(P) <=> any_am_pm(P \o Q)

\* C29: for format_boolean, format_float, format_str and
\* format_time_duration the rendering of a format whose parts are P followed
\* by Q is the rendering of P followed by the rendering of Q, for every split
\* of the parts and every value; for format_datetime the same holds whenever
\* P, Q and their concatenation agree on whether an AmPm part is present.
C29_RenderingConcatenates ==
    call.op # "none" =>
      \A k \in 0..Len(parts) :
        LET P == SubSeq(parts, 1, k)
            Q == SubSeq(parts, k + 1, Len(parts))
        IN (call.op = "format_datetime" => AgreeOnAmPm(P, Q)) =>
             buf = RenderBy(call.op, P, call.arg) \o RenderBy(call.op, Q, call.arg)

\* [AmPm, Hours, AmPm] rendered at 13:05:09: split after the first part, both
\* halves and the whole have an AmPm part
C29_Witness_AmPmBothHalves ==
    /\ call.op = "format_datetime"
    /\ call.arg = NaiveDateTime(2001, 2, 3, 13, 5, 9)
    /\ parts = << new_am_pm, new_hours("Long"), new_am_pm >>
    /\ AgreeOnAmPm(SubSeq(parts, 1, 1), SubSeq(parts, 2, 3))
    /\ buf = << "P", "M", "0", "1", "P", "M" >>

----------------------------------------------------------------------------
(* Claims checked under SpecStylemaps. *)

\* the stylemaps added by the calls of a history, in call order
RECURSIVE AddedStylemaps(_)
AddedStylemaps(h) ==
    IF h = << >> THEN << >>
    ELSE IF Len(Head(h)) = 2 THEN << Head(h)[2] >> \o AddedStylemaps(Tail(h))
         ELSE AddedStylemaps(Tail(h))

\* C30 (as claimed): stylemaps() returns None if and only if no stylemap has
\* ever been added to the format, and otherwise exactly the added stylemaps
\* in the order they were added.
C30_NoneIffNothingAdded ==
    stylemaps_of(stylemaps) =
      IF AddedStylemaps(smcalls) = << >> THEN None ELSE Some(AddedStylemaps(smcalls))

\* C30 (amended): stylemaps() returns None if and only if neither
\* push_stylemap nor stylemaps_mut has ever been called on the format; once
\* one of them has been called it returns the Vec of the added stylemaps in
\* the order they were added, which is an empty Vec when stylemaps_mut was
\* called and nothing was added.
C30_NoneIffNeverTouched ==
    stylemaps_of(stylemaps) =
      IF smcalls = << >> THEN None ELSE Some(AddedStylemaps(smcalls))

\* stylemaps_mut was called on a fresh format and nothing was added
C30_Witness_EmptyVec ==
    /\ smcalls = << << "stylemaps_mut" >> >>
    /\ stylemaps_of(stylemaps) = Some(<< >>)
    /\ origin = "Content"

====
